---- MODULE Spec2Model ----
(***************************************************************************)
(* Production Reconciliation & Allocation Engine (ETL_Load).               *)
(*                                                                         *)
(* Ten specifications share this module:                                   *)
(*   SpecSeq    the three Day Seq UPRT routines, run loop step by loop     *)
(*              step over one well's gas series;                           *)
(*   SpecSeqLive  SpecSeq where an entered routine keeps running;          *)
(*   SpecAlloc  the monthly allocation factors and the daily projection;   *)
(*   SpecMerge  feed deduplication and the left join onto the spine;       *)
(*   Spec       the stored tables PCE_CDA / PCE_Production under the       *)
(*              full rebuild, the prodview update and the quick update;    *)
(*   SpecCum    calculate_cumulatives over one well's metric column;       *)
(*   SpecSpine  build_optimized_spine over the well registry;              *)
(*   SpecWriter the batched writers and their handling of a failed batch;  *)
(*   SpecFrame  production_update.main over a frame of several wells:      *)
(*              well naming, first-production cut, sequences, cumulatives  *)
(*              and monthly averages;                                      *)
(*   SpecAccess access_loader.delete_cda_range over the Access CDA_Table.  *)
(*                                                                         *)
(* A nullable value (SQL NULL, pandas NaN/None) is <<>>; a present value   *)
(* v is <<v>>.  Volumes are integers counted in 1/Unit of a unit, so that  *)
(* a volume strictly between 0 and 1 unit exists in the model.             *)
(***************************************************************************)
EXTENDS Integers, Sequences, FiniteSets, TLC

\* ------------------------------------------------------------------ bounds
Unit == 2          \* resolution: a volume v stands for v/Unit units
MaxDays == 4       \* longest per-well gas series drawn for the sequence routines

\* ------------------------------------------------------------- null values
NULL == <<>>
Some(v) == <<v>>
IsNull(x) == x = NULL
NotNull(x) == x # NULL
\* pandas .fillna(0) / Python "row[1] or 0"
fillna0(x) == IF IsNull(x) THEN 0 ELSE x[1]

\* ------------------------------------------------- sequence routines: state
VARIABLES
    routine,    \* which routine is running over the well ("idle" before a call)
    gas_wh,     \* the well's gas series in ascending date order, nulls filled with 0
    pc,         \* position in the running routine
    i,          \* loop index (1-based here, 0-based in the source)
    j,          \* inner index of run_prodview_update's streak loop
    counter,    \* the UPRT counter
    last_good,  \* recalculate_day_seq_uprt: value frozen for a low streak
    seq_uprt,   \* the emitted Day Seq UPRT list (seq_uprt / new_seq / day_seq_uprt)
    days_seq    \* the emitted Days Seq list

seqVars == <<routine, gas_wh, pc, i, j, counter, last_good, seq_uprt, days_seq>>

\* --------------------------------------------- allocation calculator: state
VARIABLES
    cda_month,      \* PCE_CDA rows of one well for one accounting month, by day
    ext,            \* the month's ValNav / Accumap volumes: S2_Gas, Sales_Gas, Sales_Cond
    alloc_factors,  \* the well-month's Allocation_Factors row, NULL before a load
    projected_by,   \* the routine that last projected the factors onto cda_month
    prod_gas        \* 'Gas WH Production' per day after filter_to_first_production

allocVars == <<cda_month, ext, alloc_factors, projected_by, prod_gas>>

\* ------------------------------------------------------ feed merge: state
VARIABLES
    gaswh_feed,   \* rows of the GasWH feed for one well, in the order the query returned them
    cgr_feed,     \* rows of the CGR feed for the same well
    pipeline,     \* the merge pipeline that produced joined ("none" before a run)
    joined        \* the merged daily records handed to the insert

mergeVars == <<gaswh_feed, cgr_feed, pipeline, joined>>

\* ------------------------------------------------------ stored tables: state
VARIABLES
    snowflake_gaswh,  \* the GasWH feed as the upstream store returns it for the well
    PCE_CDA,          \* the well's PCE_CDA rows, listed by ProdDate
    PCE_Production,   \* the well's PCE_Production rows, listed by Date
    last_run          \* the last engine run: its kind, its window, its summary's
                      \* months_processed, and whether it
                      \* repeats the run before it (times = 2)

engineVars == <<snowflake_gaswh, PCE_CDA, PCE_Production, last_run>>

\* ----------------------------------------------- cumulative totals: state
VARIABLES
    source_col,   \* one well's values of a cumulated metric, in row order, nulls kept
    target_col    \* the metric's cumulative column, NULL before calculate_cumulatives

cumVars == <<source_col, target_col>>

\* ------------------------------------------------- registry spine: state
VARIABLES
    mapping,      \* the registry rows in the order pull_mapping returned them, by Well Name
    first_dates,  \* first_dates[well]: the well's first-production date
    spine         \* the combined spine, NULL before build_optimized_spine

spineVars == <<mapping, first_dates, spine>>

\* ---------------------------------------------------- batched writer: state
VARIABLES
    writer,          \* the routine that is writing ("idle" before a call)
    rows_to_insert,  \* the daily records handed to the writer, in order
    batch_at,        \* position of the first row of the next batch
    in_transaction,  \* rows executed on the connection and not yet committed
    table_rows,      \* rows committed to the table, in commit order
    bad_rows,        \* positions the writer logged as bad rows
    deleted_cda,     \* run_prodview_update: rows its DELETE removed from the month
    write_pc         \* "idle", "batches", "done", or "raised" when the error left the writer

writerVars == <<writer, rows_to_insert, batch_at, in_transaction, table_rows, bad_rows,
               deleted_cda, write_pc>>

\* ------------------------------------------------- production frame: state
VARIABLES
    composite_map,  \* PCE_WM: (source well, Composite Name) pairs
    fallback_map,   \* PCE_WM: (source well, Well Name) pairs
    df,             \* the frame fetch_cda_data returned, as main's steps rewrite it
    original_count, \* "original_count = len(df)" of the step that last dropped rows
    frame_pc        \* the step of production_update.main that produced df

frameVars == <<composite_map, fallback_map, df, original_count, frame_pc>>

\* ------------------------------------------------------ Access table: state
VARIABLES
    CDA_Table,     \* CDA_Table[d]: the number of rows the Access table holds for ProdDate d
    range_start,   \* delete_cda_range: start
    range_end,     \* delete_cda_range: end
    access_pc      \* "idle", "batched" inside the deletion loop, "returned"

accessVars == <<CDA_Table, range_start, range_end, access_pc>>

notSeq == <<allocVars, mergeVars, engineVars, cumVars, spineVars, writerVars, frameVars, accessVars>>
notAlloc == <<seqVars, mergeVars, engineVars, cumVars, spineVars, writerVars, frameVars, accessVars>>
notMerge == <<seqVars, allocVars, engineVars, cumVars, spineVars, writerVars, frameVars, accessVars>>
notEngine == <<seqVars, allocVars, mergeVars, cumVars, spineVars, writerVars, frameVars, accessVars>>
notCum == <<seqVars, allocVars, mergeVars, engineVars, spineVars, writerVars, frameVars, accessVars>>
notSpine == <<seqVars, allocVars, mergeVars, engineVars, cumVars, writerVars, frameVars, accessVars>>
notWriter == <<seqVars, allocVars, mergeVars, engineVars, cumVars, spineVars, frameVars, accessVars>>
notFrame == <<seqVars, allocVars, mergeVars, engineVars, cumVars, spineVars, writerVars, accessVars>>
notAccess == <<seqVars, allocVars, mergeVars, engineVars, cumVars, spineVars, writerVars, frameVars>>

\* the Access table at rest, for the specifications that do not touch it
AccessParked ==
    /\ CDA_Table = <<>>
    /\ range_start = 0
    /\ range_end = 0
    /\ access_pc = "parked"

\* the production frame at rest, for the specifications that do not build it
FrameParked ==
    /\ composite_map = {}
    /\ fallback_map = {}
    /\ df = <<>>
    /\ original_count = 0
    /\ frame_pc = "parked"

\* the registry spine at rest, for the specifications that do not build it
SpineParked ==
    /\ mapping = <<>>
    /\ first_dates = <<>>
    /\ spine = NULL

\* the batched writer at rest, for the specifications that do not run it
WriterParked ==
    /\ writer = "idle"
    /\ rows_to_insert = <<>>
    /\ batch_at = 1
    /\ in_transaction = <<>>
    /\ table_rows = <<>>
    /\ bad_rows = {}
    /\ deleted_cda = 0
    /\ write_pc = "parked"

\* the cumulative calculator at rest, for the specifications that do not run it
CumParked ==
    /\ source_col = <<>>
    /\ target_col = NULL

NoRun == [kind |-> "none", from |-> 0, to |-> 0, times |-> 0, months_processed |-> 0]

\* the stored tables at rest, for the specifications that do not run the engine
EngineParked ==
    /\ snowflake_gaswh = <<>>
    /\ PCE_CDA = <<>>
    /\ PCE_Production = <<>>
    /\ last_run = [NoRun EXCEPT !.kind = "parked"]

\* the merge pipelines at rest, for the specifications that do not run them
MergeParked ==
    /\ gaswh_feed = <<>>
    /\ cgr_feed = <<>>
    /\ pipeline = "parked"
    /\ joined = <<>>

\* the sequence routines at rest, for the specifications that do not run them
SeqParked ==
    /\ routine = "idle"
    /\ gas_wh = <<>>
    /\ pc = "parked"
    /\ i = 1
    /\ j = 1
    /\ counter = 1
    /\ last_good = 0
    /\ seq_uprt = <<>>
    /\ days_seq = <<>>

\* the allocation calculator at rest, for the specifications that do not run it
AllocParked ==
    /\ cda_month = <<>>
    /\ ext = [S2_Gas |-> 0, Sales_Cond |-> 0, Sales_Gas |-> 0]
    /\ alloc_factors = NULL
    /\ projected_by = "none"
    /\ prod_gas = NULL

\* volumes a daily wellhead gas reading takes: negative (a correction), zero,
\* positive below one unit, exactly one unit, above the low-flow threshold
GasVals == {0 - 1, 0, 1, Unit, 2 * Unit + 1}
GasCells == {NULL} \cup {Some(v) : v \in GasVals}

\* Scenario A of the specification: 0, 0, 5, 6, 0, 7 units
ScenarioA == <<Some(0), Some(0), Some(5 * Unit), Some(6 * Unit), Some(0), Some(7 * Unit)>>

RawSeries == (UNION {[1..n -> GasCells] : n \in 0..MaxDays}) \cup {ScenarioA}

Routines == {"calculate_sequences", "run_prodview_update", "recalculate_day_seq_uprt"}

\* seq.py:64, production_update.py:272, prodview_update_gui.py:607
FillSeries(raw) == [k \in 1..Len(raw) |-> fillna0(raw[k])]

\* mutant: the day counter numbers the days from 0
RangeFrom0(n) == [k \in 1..n |-> k - 1]
\* range(1, n + 1)
RangeFrom1(n) == [k \in 1..n |-> k]

\* seq.py:71 "gas_wh[i] >= 1" and prodview_update_gui.py:612
AtLeastOneUnit(v) == v >= Unit
\* seq.py:83 "gas_wh[i] < 1" and prodview_update_gui.py:617
BelowOneUnit(v) == v < Unit
\* production_update.py:277 "val > 0"
Positive(v) == v > 0
\* mutant: the loop index steps over a day
SkipIndex(k) == k + 2
\* seq.py:75, 80, 85 "i += 1"; prodview_update_gui.py:614 "i += 1", 616
\* "j = i + 1", 619 "j += 1"; the step of "for val in gas_wh"
NextIndex(k) == k + 1
\* mutant: the low streak takes the current counter instead of the last good value
RecalcLastGoodNoFreeze(c) == c
\* seq.py:78 "last_good = counter - 1"
RecalcLastGood(c) == c - 1
\* mutant: a low day takes counter - 1 without the floor of 1
CalcLowValueNoFloor(c) == c - 1
\* production_update.py:281 "counter - 1 if counter > 1 else 1"
CalcLowValue(c) == IF c > 1 THEN c - 1 ELSE 1

SeqInit ==
    /\ routine = "idle"
    /\ gas_wh \in {FillSeries(r) : r \in RawSeries}
    /\ pc = "idle"
    /\ i = 1
    /\ j = 1
    /\ counter = 1
    /\ last_good = 0
    /\ seq_uprt = <<>>
    /\ days_seq = <<>>
    /\ AllocParked
    /\ MergeParked
    /\ EngineParked
    /\ CumParked
    /\ SpineParked
    /\ WriterParked
    /\ FrameParked
    /\ AccessParked

\* a routine is entered for the well: counter = 1, i = 0, empty output list
StartRoutine(r) ==
    /\ routine = "idle"
    /\ pc = "idle"
    /\ routine' = r
    /\ pc' = "loop"
    /\ i' = 1
    /\ j' = 1
    /\ counter' = 1
    /\ last_good' = 0
    /\ seq_uprt' = <<>>
    /\ days_seq' = IF r = "recalculate_day_seq_uprt" THEN <<>> ELSE RangeFrom1(Len(gas_wh))
    /\ UNCHANGED gas_wh
    /\ UNCHANGED notSeq

\* seq.py:70-80: one pass of the outer while loop
RecalcOuter ==
    /\ routine = "recalculate_day_seq_uprt"
    /\ pc = "loop"
    /\ IF i <= Len(gas_wh)
         THEN IF AtLeastOneUnit(gas_wh[i])
                THEN /\ seq_uprt' = Append(seq_uprt, counter)
                     /\ counter' = counter + 1
                     /\ i' = NextIndex(i)
                     /\ UNCHANGED <<pc, last_good>>
                ELSE /\ last_good' = RecalcLastGood(counter)
                     /\ seq_uprt' = Append(seq_uprt, RecalcLastGood(counter))
                     /\ i' = NextIndex(i)
                     /\ pc' = "streak"
                     /\ UNCHANGED counter
         ELSE /\ pc' = "done"
              /\ UNCHANGED <<i, counter, last_good, seq_uprt>>
    /\ UNCHANGED <<routine, gas_wh, j, days_seq>>
    /\ UNCHANGED notSeq

\* seq.py:83-85: one pass of the inner while loop
RecalcStreak ==
    /\ routine = "recalculate_day_seq_uprt"
    /\ pc = "streak"
    /\ IF i <= Len(gas_wh) /\ BelowOneUnit(gas_wh[i])
         THEN /\ seq_uprt' = Append(seq_uprt, last_good)
              /\ i' = NextIndex(i)
              /\ UNCHANGED pc
         ELSE /\ pc' = "loop"
              /\ UNCHANGED <<i, seq_uprt>>
    /\ UNCHANGED <<routine, gas_wh, j, counter, last_good, days_seq>>
    /\ UNCHANGED notSeq

\* production_update.py:276-283: one pass of "for val in gas_wh"
CalcSeqStep ==
    /\ routine = "calculate_sequences"
    /\ pc = "loop"
    /\ IF i <= Len(gas_wh)
         THEN /\ IF Positive(gas_wh[i])
                   THEN /\ seq_uprt' = Append(seq_uprt, counter)
                        /\ counter' = counter + 1
                   ELSE /\ seq_uprt' = Append(seq_uprt, CalcLowValue(counter))
                        /\ UNCHANGED counter
              /\ i' = NextIndex(i)
              /\ UNCHANGED pc
         ELSE /\ pc' = "done"
              /\ UNCHANGED <<i, counter, seq_uprt>>
    /\ UNCHANGED <<routine, gas_wh, j, last_good, days_seq>>
    /\ UNCHANGED notSeq

\* prodview_update_gui.py:609-616: one pass of the outer while loop
ProdviewOuter ==
    /\ routine = "run_prodview_update"
    /\ pc = "loop"
    /\ IF i <= Len(gas_wh)
         THEN /\ seq_uprt' = Append(seq_uprt, counter)
              /\ IF AtLeastOneUnit(gas_wh[i])
                   THEN /\ counter' = counter + 1
                        /\ i' = NextIndex(i)
                        /\ UNCHANGED <<pc, j>>
                   ELSE /\ j' = NextIndex(i)
                        /\ pc' = "streak"
                        /\ UNCHANGED <<i, counter>>
         ELSE /\ pc' = "done"
              /\ UNCHANGED <<i, j, counter, seq_uprt>>
    /\ UNCHANGED <<routine, gas_wh, last_good, days_seq>>
    /\ UNCHANGED notSeq

\* prodview_update_gui.py:617-621: one pass of the inner while loop, then "i = j; counter += 1"
ProdviewStreak ==
    /\ routine = "run_prodview_update"
    /\ pc = "streak"
    /\ IF j <= Len(gas_wh) /\ BelowOneUnit(gas_wh[j])
         THEN /\ seq_uprt' = Append(seq_uprt, counter)
              /\ j' = NextIndex(j)
              /\ UNCHANGED <<pc, i, counter>>
         ELSE /\ i' = j
              /\ counter' = counter + 1
              /\ pc' = "loop"
              /\ UNCHANGED <<j, seq_uprt>>
    /\ UNCHANGED <<routine, gas_wh, last_good, days_seq>>
    /\ UNCHANGED notSeq

SeqNext ==
    \/ \E r \in Routines : StartRoutine(r)
    \/ RecalcOuter
    \/ RecalcStreak
    \/ CalcSeqStep
    \/ ProdviewOuter
    \/ ProdviewStreak

\* ====================================================== cumulative totals
\* values of a cumulated metric: missing, a negative correction, zero, positive
CumCells == {NULL, Some(0 - 1), Some(0), Some(Unit + 1)}
CumSeries == UNION {[1..n -> CumCells] : n \in 0..MaxDays}

\* pandas Series.cumsum() over a series without nulls
RECURSIVE cumsum(_)
cumsum(values) ==
    IF values = <<>> THEN <<>>
    ELSE LET n == Len(values)
             before == cumsum(SubSeq(values, 1, n - 1))
         IN  Append(before, (IF n = 1 THEN 0 ELSE before[n - 1]) + values[n])

\* mutant: the running total starts again after a missing value
RECURSIVE CumulativeResetOnNull(_)
CumulativeResetOnNull(col) ==
    IF col = <<>> THEN <<>>
    ELSE LET n == Len(col)
             before == CumulativeResetOnNull(SubSeq(col, 1, n - 1))
         IN  Append(before,
                    (IF n = 1 \/ IsNull(col[n - 1]) THEN 0 ELSE before[n - 1])
                        + fillna0(col[n]))
\* production_update.py:319-320 "values = pd.to_numeric(...).fillna(0)" then
\* "values.cumsum().values"
CumulativeColumn(col) == cumsum(FillSeries(col))

CumInit ==
    /\ source_col \in CumSeries
    /\ target_col = NULL
    /\ SeqParked
    /\ AllocParked
    /\ MergeParked
    /\ EngineParked
    /\ SpineParked
    /\ WriterParked
    /\ FrameParked
    /\ AccessParked

\* calculate_cumulatives on one well and one (source, target) pair of columns
calculate_cumulatives ==
    /\ target_col = NULL
    /\ target_col' = Some(CumulativeColumn(source_col))
    /\ UNCHANGED source_col
    /\ UNCHANGED notCum

CumNext == calculate_cumulatives

\* ================================================== allocation calculator
DaysInMonth == 2   \* days of the accounting month held in cda_month

\* A ratio is a pair <<numerator, denominator>> with a positive denominator.
Rat(n, d) == IF d < 0 THEN <<0 - n, 0 - d>> ELSE <<n, d>>
RatOne == <<1, 1>>
RatZero == <<0, 1>>
RatEq(a, b) == a[1] * b[2] = b[1] * a[2]
RatPositive(q) == q[1] > 0
RatTimesInt(q, v) == <<q[1] * v, q[2]>>
RatOver(a, b) == Rat(a[1] * b[2], a[2] * b[1])

\* SQL arithmetic on nullable operands: NULL in, NULL out
SqlTimes(f, x) == IF IsNull(x) THEN NULL ELSE Some(RatTimesInt(f, x[1]))
\* SQL "x > 0": unknown (here FALSE, the ELSE branch of IIF) when x is NULL
SqlPositive(x) == NotNull(x) /\ x[1] > 0
SqlRatPositive(x) == NotNull(x) /\ RatPositive(x[1])
\* IIF(cond, a, b)
IIF(cond, a, b) == IF cond THEN a ELSE b

RECURSIVE SumPresent(_, _, _)
SumPresent(rows, col, n) ==
    IF n = 0 THEN 0
    ELSE SumPresent(rows, col, n - 1) + fillna0(rows[n][col])
\* SQL SUM(col): NULL when no row has a value, else the sum of the present ones
SqlSum(rows, col) ==
    IF \A n \in 1..Len(rows) : IsNull(rows[n][col]) THEN NULL
    ELSE Some(SumPresent(rows, col, Len(rows)))

\* the daily readings of the month before any projection
CgrCells == {NULL, Some(1)}
GatheredCells == {NULL, Some(0 - 1), Some(Unit + 1)}

\* mutant: a missing operand counts as zero
CondensateWHZeroFill(gas, cgr) == Some(fillna0(gas) * fillna0(cgr))
\* cda.py:1500-1504 "GasWH_Production * CGR_Ratio" (NaN when either is NaN)
CondensateWH(gas, cgr) ==
    IF IsNull(gas) \/ IsNull(cgr) THEN NULL ELSE Some(gas[1] * cgr[1])

CdaDay(gas, cgr, gathered) ==
    [GasWH_Production |-> gas,
     Condensate_WH_Production |-> CondensateWH(gas, cgr),
     Gathered_Gas_Production |-> gathered,
     Gathered_Condensate_Production |-> gathered,
     Gas_S2_Production |-> NULL,
     Gas_Sales_Production |-> NULL,
     Condensate_Sales_Production |-> NULL,
     Sales_CGR_Ratio |-> NULL]

\* the days drawn for the month: no wellhead reading with any gathered value;
\* a negative, zero or sub-unit reading with and without a gathered value; a
\* reading above the low-flow threshold with and without a CGR ratio
CdaDays ==
    {CdaDay(NULL, Some(1), a) : a \in GatheredCells} \cup
    {CdaDay(Some(v), Some(1), a) : v \in {0 - 1, 0, 1}, a \in {NULL, Some(Unit + 1)}} \cup
    {CdaDay(Some(2 * Unit + 1), c, a) : c \in CgrCells, a \in {NULL, Some(Unit + 1)}}

\* monthly ValNav / Accumap volumes of the well, 0 where the source has no row
\* (monthly.py:702-704 "... if has_valnav else 0")
ExtMonths ==
    {[S2_Gas |-> 2 * Unit, Sales_Cond |-> 2 * Unit, Sales_Gas |-> 2 * Unit],
     [S2_Gas |-> 2 * Unit, Sales_Cond |-> 2 * Unit, Sales_Gas |-> 0],
     [S2_Gas |-> 0, Sales_Cond |-> 0, Sales_Gas |-> 0]}

\* the well's row of the allocation workbook read by af.py: volumes and the
\* three wellhead factors as typed in the sheet, blank cells as NULL
ExcelRows ==
    {[prodview_wh_gas |-> Some(2 * Unit), s2_gas |-> Some(2 * Unit),
      wh_to_s2 |-> Some(RatOne), sales_gas |-> Some(Unit),
      wh_to_sales_gas |-> Some(<<1, 2>>), prodview_wh_cond |-> Some(2 * Unit),
      sales_cond |-> Some(2 * Unit), wh_to_sales_cond |-> Some(RatOne)],
     [prodview_wh_gas |-> Some(0), s2_gas |-> Some(0),
      wh_to_s2 |-> NULL, sales_gas |-> Some(0),
      wh_to_sales_gas |-> NULL, prodview_wh_cond |-> NULL,
      sales_cond |-> NULL, wh_to_sales_cond |-> NULL]}

AllocInit ==
    /\ cda_month \in [1..DaysInMonth -> CdaDays]
    /\ ext \in ExtMonths
    /\ alloc_factors = NULL
    /\ projected_by = "none"
    /\ prod_gas = NULL
    /\ SeqParked
    /\ MergeParked
    /\ EngineParked
    /\ CumParked
    /\ SpineParked
    /\ WriterParked
    /\ FrameParked
    /\ AccessParked

\* "float(x) if x is not None else 0" over a SQL SUM
MonthTotal(rows, col) == fillna0(SqlSum(rows, col))

\* monthly.py:710 / monthly_loader_gui.py:531 "if prodview_wh_gas == 0"
DenominatorIsZero(d) == d = 0
\* af.py:1019 "if gathered_gas_val > 0"
DenominatorPositive(d) == d > 0
\* monthly.py:710-749: 1 on a zero denominator, the ratio otherwise
MonthlyFactor(num, den) == IF DenominatorIsZero(den) THEN RatOne ELSE Rat(num, den)
\* af.py:1019-1037: the ratio on a positive denominator, "1" otherwise
ExcelGatheredFactor(num, den) == IF DenominatorPositive(den) THEN Rat(num, den) ELSE RatOne
\* af.py:998-1005 "float(x) if pd.notna(x) else 0" on a factor cell of the sheet
ExcelFactor(x) == IF IsNull(x) THEN RatZero ELSE x[1]

\* the Allocation_Factors row written by combined_monthly_loader and
\* run_monthly_loader (monthly.py:702-775, monthly_loader_gui.py:523-590)
MonthlyFactorRow(rows, e) ==
    LET prodview_wh_gas == MonthTotal(rows, "GasWH_Production")
        prodview_wh_cond == MonthTotal(rows, "Condensate_WH_Production")
        gathered_gas == MonthTotal(rows, "Gathered_Gas_Production")
        gathered_cond == MonthTotal(rows, "Gathered_Condensate_Production")
    IN  [Prodview_WH_Gas |-> prodview_wh_gas,
         Prodview_WH_Cond |-> prodview_wh_cond,
         S2_Gas |-> e.S2_Gas,
         Sales_Condensate |-> e.Sales_Cond,
         Sales_Gas |-> e.Sales_Gas,
         Gathered_Gas_Production |-> gathered_gas,
         Gathered_Condensate_Production |-> gathered_cond,
         WH_to_S2_AllocFactor |-> MonthlyFactor(e.S2_Gas, prodview_wh_gas),
         WH_to_Sales_AllocFactor |-> MonthlyFactor(e.Sales_Gas, prodview_wh_gas),
         WH_to_Sales_Cond_AllocFactor |-> MonthlyFactor(e.Sales_Cond, prodview_wh_cond),
         Gathered_to_S2_Gas |-> MonthlyFactor(e.S2_Gas, gathered_gas),
         Gathered_to_Sales |-> MonthlyFactor(e.Sales_Gas, gathered_gas),
         Gathered_to_Sales_Condensate |-> MonthlyFactor(e.Sales_Cond, gathered_cond)]

\* the Allocation_Factors row written by allocation_factors_loader (af.py:985-1060)
ExcelFactorRow(rows, x) ==
    LET gathered_gas_val == MonthTotal(rows, "Gathered_Gas_Production")
        gathered_cond_val == MonthTotal(rows, "Gathered_Condensate_Production")
    IN  [Prodview_WH_Gas |-> fillna0(x.prodview_wh_gas),
         Prodview_WH_Cond |-> fillna0(x.prodview_wh_cond),
         S2_Gas |-> fillna0(x.s2_gas),
         Sales_Condensate |-> fillna0(x.sales_cond),
         Sales_Gas |-> fillna0(x.sales_gas),
         Gathered_Gas_Production |-> gathered_gas_val,
         Gathered_Condensate_Production |-> gathered_cond_val,
         WH_to_S2_AllocFactor |-> ExcelFactor(x.wh_to_s2),
         WH_to_Sales_AllocFactor |-> ExcelFactor(x.wh_to_sales_gas),
         WH_to_Sales_Cond_AllocFactor |-> ExcelFactor(x.wh_to_sales_cond),
         Gathered_to_S2_Gas |-> ExcelGatheredFactor(fillna0(x.s2_gas), gathered_gas_val),
         Gathered_to_Sales |-> ExcelGatheredFactor(fillna0(x.sales_gas), gathered_gas_val),
         Gathered_to_Sales_Condensate |->
             ExcelGatheredFactor(fillna0(x.sales_cond), gathered_cond_val)]

\* monthly.py:827 "IIF([GasWH_Production] > 0, [GasWH_Production], [Gathered_Gas_Production])"
BaselineIIF(wh, gathered) == IIF(SqlPositive(wh), wh, gathered)
\* sales_ratios_gui.py:140, update.py:361 "? * [GasWH_Production]"
BaselineWellhead(wh, gathered) == wh

\* mutant: the ratio defaults to 1 like the allocation factors
SalesCgrRatioDefaultOne(sales_cond, sales_gas) ==
    IIF(SqlRatPositive(sales_gas),
        IF IsNull(sales_cond) THEN NULL
        ELSE Some(RatOver(sales_cond[1], sales_gas[1])),
        Some(RatOne))
\* monthly.py:869-880, sales_ratios_gui.py:170-179, update.py:393-404
\* "IIF([Gas - Sales Production] > 0, [Condensate - Sales Production] /
\* [Gas - Sales Production], 0)"
SalesCgrRatio(sales_cond, sales_gas) ==
    IIF(SqlRatPositive(sales_gas),
        IF IsNull(sales_cond) THEN NULL
        ELSE Some(RatOver(sales_cond[1], sales_gas[1])),
        Some(RatZero))

\* the four UPDATE statements on one PCE_CDA row (monthly.py:825-880,
\* sales_ratios_gui.py:137-179, update.py:357-404); substitute tells whether
\* the statement text carries the IIF on the wellhead column
ProjectDay(row, f, substitute) ==
    LET base_gas == IF substitute
                      THEN BaselineIIF(row.GasWH_Production, row.Gathered_Gas_Production)
                      ELSE BaselineWellhead(row.GasWH_Production, row.Gathered_Gas_Production)
        base_cond == IF substitute
                       THEN BaselineIIF(row.Condensate_WH_Production,
                                        row.Gathered_Condensate_Production)
                       ELSE BaselineWellhead(row.Condensate_WH_Production,
                                             row.Gathered_Condensate_Production)
        sales_gas == IF f.Sales_Gas > 0
                       THEN SqlTimes(f.WH_to_Sales_AllocFactor, base_gas)
                       ELSE Some(Rat(f.Sales_Gas, DaysInMonth))
        sales_cond == SqlTimes(f.WH_to_Sales_Cond_AllocFactor, base_cond)
    IN  [row EXCEPT
           !.Gas_S2_Production = SqlTimes(f.WH_to_S2_AllocFactor, base_gas),
           !.Gas_Sales_Production = sales_gas,
           !.Condensate_Sales_Production = sales_cond,
           !.Sales_CGR_Ratio = SalesCgrRatio(sales_cond, sales_gas)]

ProjectMonth(rows, f, substitute) ==
    [n \in 1..Len(rows) |-> ProjectDay(rows[n], f, substitute)]

\* production_update.py:198 "gas_wh <= 2": the low-flow threshold of 2 units
LowFlowThreshold == 2 * Unit

\* production_update.py:193-204: the value the first-production search looks at
EffectiveGas(gas, gathered) ==
    LET g == fillna0(gas)
        a == fillna0(gathered)
    IN  IF (g <= LowFlowThreshold /\ g > 0) \/ g = 0 THEN a ELSE g

\* production_update.py:219-227: the value written to a kept row
ReplacedGas(gas, gathered) ==
    IF NotNull(gas) /\ gas[1] <= LowFlowThreshold /\ gas[1] > 0 THEN gathered
    ELSE IF IsNull(gas) \/ gas[1] = 0 THEN gathered
    ELSE gas

\* production_update.py:207-216: positions from the first day with positive
\* effective gas onward; none when the well never produced
KeptDays(rows) ==
    LET producing == {n \in 1..Len(rows) :
                        EffectiveGas(rows[n].GasWH_Production,
                                     rows[n].Gathered_Gas_Production) > 0}
    IN  {n \in 1..Len(rows) : \E m \in producing : n >= m}

\* the 'Gas WH Production' column after filter_to_first_production, one cell
\* per day of the month, "dropped" for a day the filter removed
FilteredGas(rows) ==
    [n \in 1..Len(rows) |->
        IF n \in KeptDays(rows)
          THEN ReplacedGas(rows[n].GasWH_Production, rows[n].Gathered_Gas_Production)
          ELSE <<"dropped">>]

\* run_monthly_loader: DELETE the month's factor rows, INSERT the new row
run_monthly_loader ==
    /\ cda_month # <<>>
    /\ alloc_factors' = Some(MonthlyFactorRow(cda_month, ext))
    /\ UNCHANGED <<cda_month, ext, projected_by, prod_gas>>
    /\ UNCHANGED notAlloc

\* combined_monthly_loader: the same load, then the projection onto PCE_CDA
combined_monthly_loader ==
    /\ cda_month # <<>>
    /\ LET f == MonthlyFactorRow(cda_month, ext)
       IN  /\ alloc_factors' = Some(f)
           /\ cda_month' = ProjectMonth(cda_month, f, TRUE)
    /\ projected_by' = "combined_monthly_loader"
    /\ UNCHANGED <<ext, prod_gas>>
    /\ UNCHANGED notAlloc

\* allocation_factors_loader: DELETE FROM Allocation_Factors, INSERT the sheet's row
allocation_factors_loader ==
    /\ cda_month # <<>>
    /\ \E x \in ExcelRows : alloc_factors' = Some(ExcelFactorRow(cda_month, x))
    /\ UNCHANGED <<cda_month, ext, projected_by, prod_gas>>
    /\ UNCHANGED notAlloc

\* run_sales_ratios_update: skipped when the month has no factor rows
\* (update_all_cda_fields of update.py issues the same four statements)
run_sales_ratios_update ==
    /\ NotNull(alloc_factors)
    /\ cda_month' = ProjectMonth(cda_month, alloc_factors[1], FALSE)
    /\ projected_by' = "run_sales_ratios_update"
    /\ UNCHANGED <<ext, alloc_factors, prod_gas>>
    /\ UNCHANGED notAlloc

\* filter_to_first_production over the well's PCE_CDA rows
filter_to_first_production ==
    /\ cda_month # <<>>
    /\ prod_gas' = Some(FilteredGas(cda_month))
    /\ UNCHANGED <<cda_month, ext, alloc_factors, projected_by>>
    /\ UNCHANGED notAlloc

AllocNext ==
    \/ run_monthly_loader
    \/ combined_monthly_loader
    \/ allocation_factors_loader
    \/ run_sales_ratios_update
    \/ filter_to_first_production



\* ============================================================== feed merge
SpineDays == 2      \* days of the processing window, numbered 1..SpineDays
MaxFeedRows == 2    \* most rows the GasWH feed returns for the well

FeedRow(d, v) == [ProdDate |-> d, value |-> v]

\* feeds of at most n rows over the window, values drawn from cells
FeedsUpTo(n, cells) ==
    UNION {[1..m -> {FeedRow(d, v) : d \in 1..SpineDays, v \in cells}] : m \in 0..n}

MergeGasCells == {NULL, Some(0), Some(Unit + 1)}
MergeCgrCells == {NULL, Some(2)}

\* the feed's rows of one day, in feed order: what the stable
\* sort_values(['GasIDREC', 'ProdDate']) puts next to one another
RowsOn(feed, d) == SelectSeq(feed, LAMBDA r : r.ProdDate = d)

\* groupby(...).last() / .agg("last"): the last non-null value of the group
LastNonNull(rows) ==
    LET present == SelectSeq(rows, LAMBDA r : NotNull(r.value))
    IN  IF present = <<>> THEN NULL ELSE present[Len(present)].value

\* prodview_update_gui.py:325-326, run_daily.py:75-79: one row per day that has rows
RECURSIVE DedupFrom(_, _)
DedupFrom(feed, d) ==
    IF d > SpineDays THEN <<>>
    ELSE (IF RowsOn(feed, d) = <<>> THEN <<>>
          ELSE <<FeedRow(d, LastNonNull(RowsOn(feed, d)))>>) \o DedupFrom(feed, d + 1)
prepare_df(feed) == DedupFrom(feed, 1)

\* mutant: a left row without a match gets a zero
UnmatchedZero(l, col) == [l EXCEPT ![col] = Some(0)]
\* how='left': a left row without a match keeps its place with NaN in the
\* right frame's column
Unmatched(l, col) == [l EXCEPT ![col] = NULL]

\* DataFrame.merge(right, on=[key, 'ProdDate'], how='left'): every left row once
\* per matching right row, in right order; once with a null when none matches
RECURSIVE LeftMerge(_, _, _)
LeftMerge(left, right, col) ==
    IF left = <<>> THEN <<>>
    ELSE LET l == Head(left)
             m == RowsOn(right, l.ProdDate)
         IN  (IF m = <<>> THEN <<Unmatched(l, col)>>
              ELSE [k \in 1..Len(m) |-> [l EXCEPT ![col] = m[k].value]])
             \o LeftMerge(Tail(left), right, col)

\* the allocation feed is not drawn here: its columns are the None that the
\* pipelines set when the feed has no row for the well
SpineRow(d) ==
    [ProdDate |-> d, GasWH_Production |-> NULL, CGR_Ratio |-> NULL,
     Condensate_WH_Production |-> NULL, Gathered_Gas_Production |-> NULL]

\* prodview_update_gui.py:273-292, run_daily.py:38-45: every day of the window
build_spine == [d \in 1..SpineDays |-> SpineRow(d)]

\* cda.py:1300-1391: the earliest date of any feed row of the well, whatever
\* its value; the start of the history (2009-01-01) when the well has no row
FirstDate(gas, cgr) ==
    LET all_dates == {gas[k].ProdDate : k \in 1..Len(gas)} \cup
                     {cgr[k].ProdDate : k \in 1..Len(cgr)}
    IN  IF all_dates = {} THEN 1
        ELSE CHOOSE d \in all_dates : \A e \in all_dates : d <= e

\* cda.py:1393-1448: the well's days from its first date to the end of the window
build_optimized_spine(gas, cgr) ==
    [k \in 1..(SpineDays - FirstDate(gas, cgr) + 1) |-> SpineRow(FirstDate(gas, cgr) + k - 1)]

\* result["Condensate_WH_Production"] = result["GasWH_Production"] * result["CGR_Ratio"]
WithCondensate(rows) ==
    [k \in 1..Len(rows) |->
        [rows[k] EXCEPT !.Condensate_WH_Production =
            CondensateWH(rows[k].GasWH_Production, rows[k].CGR_Ratio)]]

\* cda.py:1450-1518 process_well_batch: the feeds are merged as pulled
ProcessWellBatch(gas, cgr) ==
    WithCondensate(LeftMerge(LeftMerge(build_optimized_spine(gas, cgr), gas,
                                       "GasWH_Production"),
                             cgr, "CGR_Ratio"))

\* prodview_update_gui.py:304-430 (and the same text at 700-1000 in
\* run_quick_update), run_daily.py:47-360: the feeds are deduplicated first
MergePrepared(gas, cgr) ==
    WithCondensate(LeftMerge(LeftMerge(build_spine, prepare_df(gas), "GasWH_Production"),
                             prepare_df(cgr), "CGR_Ratio"))

\* cda_build_step2.py:12-24 "ORDER BY DTTM": the feed's rows by date, ties in feed order
RECURSIVE OrderByDate(_, _)
OrderByDate(feed, d) ==
    IF d > SpineDays THEN <<>> ELSE RowsOn(feed, d) \o OrderByDate(feed, d + 1)

\* main.py:58-64: one CDA_Table row per row of the GasWH slice
insert_cda_rows(gas) ==
    LET df_base == OrderByDate(gas, 1)
    IN  [k \in 1..Len(df_base) |->
            [SpineRow(df_base[k].ProdDate) EXCEPT !.GasWH_Production = df_base[k].value]]

\* access_io.py:249-284: rows without a CGR are dropped from the slice, the others
\* are applied in date order to every stored row of their day
update_cda_cgr(rows, cgr) ==
    [k \in 1..Len(rows) |->
        LET v == LastNonNull(RowsOn(cgr, rows[k].ProdDate))
        IN  IF IsNull(v) THEN rows[k] ELSE [rows[k] EXCEPT !.CGR_Ratio = v]]

\* access_io.py:286-304: SET ... = IIF(gas IS NULL OR cgr IS NULL, NULL, gas * cgr)
\* WHERE gas IS NOT NULL AND cgr IS NOT NULL
update_cda_condensate_wh(rows) ==
    [k \in 1..Len(rows) |->
        IF NotNull(rows[k].GasWH_Production) /\ NotNull(rows[k].CGR_Ratio)
          THEN [rows[k] EXCEPT !.Condensate_WH_Production =
                   CondensateWH(rows[k].GasWH_Production, rows[k].CGR_Ratio)]
          ELSE rows[k]]

MergeInit ==
    /\ gaswh_feed \in FeedsUpTo(MaxFeedRows, MergeGasCells)
    /\ cgr_feed \in FeedsUpTo(MaxFeedRows - 1, MergeCgrCells)
    /\ pipeline = "none"
    /\ joined = <<>>
    /\ SeqParked
    /\ AllocParked
    /\ EngineParked
    /\ CumParked
    /\ SpineParked
    /\ WriterParked
    /\ FrameParked
    /\ AccessParked

\* cda.py __main__: pull, spine from the first date, merge per well
process_well_batch ==
    /\ pipeline # "parked"
    /\ pipeline' = "cda"
    /\ joined' = ProcessWellBatch(gaswh_feed, cgr_feed)
    /\ UNCHANGED <<gaswh_feed, cgr_feed>>
    /\ UNCHANGED notMerge

\* the merge step shared by run_prodview_update and run_quick_update
prodview_merge(r) ==
    /\ pipeline # "parked"
    /\ pipeline' = r
    /\ joined' = MergePrepared(gaswh_feed, cgr_feed)
    /\ UNCHANGED <<gaswh_feed, cgr_feed>>
    /\ UNCHANGED notMerge

\* run_daily.py __main__
run_daily ==
    /\ pipeline # "parked"
    /\ pipeline' = "run_daily"
    /\ joined' = MergePrepared(gaswh_feed, cgr_feed)
    /\ UNCHANGED <<gaswh_feed, cgr_feed>>
    /\ UNCHANGED notMerge

\* main.py: insert the GasWH slice, update CGR, then the condensate
main ==
    /\ pipeline # "parked"
    /\ pipeline' = "main"
    /\ joined' = update_cda_condensate_wh(update_cda_cgr(insert_cda_rows(gaswh_feed),
                                                         cgr_feed))
    /\ UNCHANGED <<gaswh_feed, cgr_feed>>
    /\ UNCHANGED notMerge

MergeNext ==
    \/ process_well_batch
    \/ \E r \in {"run_prodview_update", "run_quick_update"} : prodview_merge(r)
    \/ run_daily
    \/ main

\* ========================================================== registry spine
\* Well names are numbered in ascending name order: well 1 sorts before well 2.
MaxWells == 3      \* wells of the registry, and the most rows pull_mapping returns

Wells == 1..MaxWells
\* pull_mapping drops duplicates of GasIDREC, not of Well Name: two registry
\* rows can carry one name
Mappings == UNION {[1..n -> Wells] : n \in 0..MaxWells}

\* cda.py:1418-1431: the rows of one registry row, one per day from the well's
\* first date to the cutoff
WellSpine(well_name, first_date) ==
    [k \in 1..(SpineDays - first_date + 1) |->
        [Well_Name |-> well_name, ProdDate |-> first_date + k - 1]]

\* cda.py:1403-1433 and 1437 "pd.concat(all_spines)": the well spines in registry order
RECURSIVE all_spines(_, _)
all_spines(rows, dates) ==
    IF rows = <<>> THEN <<>>
    ELSE WellSpine(rows[1], dates[rows[1]]) \o all_spines(Tail(rows), dates)

\* (Well Name, ProdDate) of a comes before that of b
SpineKeyBefore(a, b) ==
    \/ a.Well_Name < b.Well_Name
    \/ a.Well_Name = b.Well_Name /\ a.ProdDate < b.ProdDate

\* cda.py:1438 "spine.sort_values([\"Well Name\", \"ProdDate\"])": a stable sort
RECURSIVE sort_values(_)
sort_values(rows) ==
    IF rows = <<>> THEN <<>>
    ELSE LET k == CHOOSE n \in 1..Len(rows) :
                     /\ \A m \in 1..Len(rows) : ~SpineKeyBefore(rows[m], rows[n])
                     /\ \A m \in 1..(n - 1) : SpineKeyBefore(rows[n], rows[m])
             rest == [m \in 1..(Len(rows) - 1) |-> IF m < k THEN rows[m] ELSE rows[m + 1]]
         IN  <<rows[k]>> \o sort_values(rest)

\* mutant: the combined spine is left in registry order
CombinedSpineUnsorted(rows, dates) == all_spines(rows, dates)
\* cda.py:1393-1448 build_optimized_spine
CombinedSpine(rows, dates) == sort_values(all_spines(rows, dates))

SpineInit ==
    /\ mapping \in Mappings
    /\ first_dates \in [Wells -> 1..SpineDays]
    /\ spine = NULL
    /\ SeqParked
    /\ AllocParked
    /\ MergeParked
    /\ EngineParked
    /\ CumParked
    /\ WriterParked
    /\ FrameParked
    /\ AccessParked

\* cda.py __main__ step 5: spine = build_optimized_spine(mapping, first_dates, end)
build_optimized_spine_step ==
    /\ spine = NULL
    /\ spine' = Some(CombinedSpine(mapping, first_dates))
    /\ UNCHANGED <<mapping, first_dates>>
    /\ UNCHANGED notSpine

SpineNext == build_optimized_spine_step

\* ========================================================== batched writer
\* A row is its position in rows_to_insert and whether the database rejects it;
\* a row the table held for the month before the call has position 0.
MaxWriteRows == 4   \* most rows handed to a writer
BatchSize == 2      \* rows per batch (1000 and 400 in the source)
MaxStoredRows == 1  \* most rows the table holds for the month before the call

WriteRow(k, rejected) == [pos |-> k, rejected |-> rejected]
WriteInputs ==
    UNION {{[k \in 1..n |-> WriteRow(k, f[k])] : f \in [1..n -> BOOLEAN]} : n \in 0..MaxWriteRows}
Writers == {"insert_pce_cda_rows", "run_prodview_update", "insert_cda_rows"}
StoredRows == {[k \in 1..n |-> WriteRow(0, FALSE)] : n \in 0..MaxStoredRows}

\* prodview_update_gui.py:250-264: "DELETE FROM PCE_CDA WHERE ProdDate BETWEEN
\* ? AND ?" and "conn.commit()"
MonthCleared(rows) == <<>>

\* rows[i:i + batch_size]
Batch(rows, at) ==
    SubSeq(rows, at, IF at + BatchSize - 1 <= Len(rows) THEN at + BatchSize - 1 ELSE Len(rows))
AnyRejected(batch) == \E k \in 1..Len(batch) : batch[k].rejected
Accepted(batch) == SelectSeq(batch, LAMBDA r : ~r.rejected)
\* cursor.executemany without fast_executemany runs the statement row after
\* row and stops at the first rejected one: the rows before it
ExecutedBeforeError(batch) ==
    LET first_bad == CHOOSE k \in 1..Len(batch) :
                         batch[k].rejected /\ \A m \in 1..(k - 1) : ~batch[m].rejected
    IN  SubSeq(batch, 1, first_bad - 1)

WriterInit ==
    /\ writer = "idle"
    /\ rows_to_insert \in WriteInputs
    /\ batch_at = 1
    /\ in_transaction = <<>>
    /\ table_rows \in StoredRows
    /\ bad_rows = {}
    /\ deleted_cda = 0
    /\ write_pc = "idle"
    /\ SeqParked
    /\ AllocParked
    /\ MergeParked
    /\ EngineParked
    /\ CumParked
    /\ SpineParked
    /\ FrameParked
    /\ AccessParked

\* a writer is called with the rows; run_prodview_update first deletes the
\* month's rows and commits (prodview_update_gui.py:246-264)
StartWrite(w) ==
    /\ write_pc = "idle"
    /\ writer' = w
    /\ write_pc' = "batches"
    /\ IF w = "run_prodview_update"
         THEN /\ deleted_cda' = Len(table_rows)
              /\ table_rows' = MonthCleared(table_rows)
         ELSE UNCHANGED <<table_rows, deleted_cda>>
    /\ UNCHANGED <<rows_to_insert, batch_at, in_transaction, bad_rows>>
    /\ UNCHANGED notWriter

\* cda.py:1006-1024: one pass of "for i in range(0, len(rows_to_insert),
\* batch_size)": executemany and commit, and on an exception one execute and
\* commit per row of the batch.  Whether the rows executed before the error
\* stay in the open transaction is the driver's choice.
insert_pce_cda_rows_batch ==
    /\ writer = "insert_pce_cda_rows"
    /\ write_pc = "batches"
    /\ batch_at <= Len(rows_to_insert)
    /\ LET batch == Batch(rows_to_insert, batch_at)
       IN  IF ~AnyRejected(batch)
             THEN /\ table_rows' = table_rows \o in_transaction \o batch
                  /\ in_transaction' = <<>>
                  /\ UNCHANGED bad_rows
             ELSE \E left_open \in {<<>>, ExecutedBeforeError(batch)} :
                    /\ bad_rows' = bad_rows \cup
                                      {batch[k].pos : k \in {n \in 1..Len(batch) : batch[n].rejected}}
                    /\ IF Accepted(batch) = <<>>
                         THEN /\ in_transaction' = in_transaction \o left_open
                              /\ UNCHANGED table_rows
                         ELSE /\ table_rows' = table_rows \o in_transaction \o left_open
                                                  \o Accepted(batch)
                              /\ in_transaction' = <<>>
    /\ batch_at' = batch_at + BatchSize
    /\ UNCHANGED <<writer, rows_to_insert, deleted_cda, write_pc>>
    /\ UNCHANGED notWriter

\* prodview_update_gui.py:494-502 (and 1120-1126): executemany per batch with
\* no handler; the exception leaves the run through the outer "except" at 659
\* and the uncommitted rows go with the connection
prodview_insert_batch ==
    /\ writer = "run_prodview_update"
    /\ write_pc = "batches"
    /\ batch_at <= Len(rows_to_insert)
    /\ LET batch == Batch(rows_to_insert, batch_at)
       IN  IF ~AnyRejected(batch)
             THEN /\ in_transaction' = in_transaction \o batch
                  /\ batch_at' = batch_at + BatchSize
                  /\ UNCHANGED write_pc
             ELSE /\ in_transaction' = <<>>
                  /\ write_pc' = "raised"
                  /\ UNCHANGED batch_at
    /\ UNCHANGED <<writer, rows_to_insert, table_rows, bad_rows, deleted_cda>>
    /\ UNCHANGED notWriter

\* access_loader.py:269-280: executemany and commit per chunk inside one try;
\* the handler prints and raises again
access_insert_batch ==
    /\ writer = "insert_cda_rows"
    /\ write_pc = "batches"
    /\ batch_at <= Len(rows_to_insert)
    /\ LET batch == Batch(rows_to_insert, batch_at)
       IN  IF ~AnyRejected(batch)
             THEN /\ table_rows' = table_rows \o batch
                  /\ batch_at' = batch_at + BatchSize
                  /\ UNCHANGED write_pc
             ELSE /\ write_pc' = "raised"
                  /\ UNCHANGED <<table_rows, batch_at>>
    /\ UNCHANGED <<writer, rows_to_insert, in_transaction, bad_rows, deleted_cda>>
    /\ UNCHANGED notWriter

\* the loop is over: prodview_update_gui.py:504 "conn.commit()"; the "with
\* get_sql_conn() as conn" block of cda.py commits when it is left
write_done ==
    /\ write_pc = "batches"
    /\ batch_at > Len(rows_to_insert)
    /\ table_rows' = table_rows \o in_transaction
    /\ in_transaction' = <<>>
    /\ write_pc' = "done"
    /\ UNCHANGED <<writer, rows_to_insert, batch_at, bad_rows, deleted_cda>>
    /\ UNCHANGED notWriter

WriterNext ==
    \/ \E w \in Writers : StartWrite(w)
    \/ insert_pce_cda_rows_batch
    \/ prodview_insert_batch
    \/ access_insert_batch
    \/ write_done

\* ========================================================= production frame
\* production_update.main over the whole of PCE_CDA: the rows of two source
\* wells, fetched in (source well, date) order, renamed through PCE_WM, cut
\* to first production, then given sequences, cumulatives and monthly averages.
MaxFrameDays == 3    \* most days PCE_CDA holds for source well "a"
MaxOtherDays == 1    \* most days PCE_CDA holds for source well "b"

\* a day's wellhead and gathered gas: nothing, wellhead above the low-flow
\* threshold, gathered gas only
FrameCells ==
    {[gas |-> NULL, gathered |-> NULL],
     [gas |-> Some(2 * Unit + 1), gathered |-> NULL],
     [gas |-> NULL, gathered |-> Some(Unit)]}

\* production_update.py:39-75 fetch_cda_data: one row per day of a source
\* well, the computed columns not yet present
FetchedRow(source, date, cell) ==
    [Source_Well_Name |-> source, Well_Name |-> NULL, Date |-> date,
     Gas_WH |-> cell.gas, Gathered_Gas |-> cell.gathered,
     Days_Seq |-> NULL, Day_Seq_UPRT |-> NULL,
     Gas_WH_Cumulative |-> NULL, Gas_WH_Avg |-> NULL]

SourceSeries(source, most) ==
    UNION {{[k \in 1..n |-> FetchedRow(source, k, c[k])] : c \in [1..n -> FrameCells]} :
           n \in 0..most}

\* "ORDER BY [Well Name], ProdDate": the rows of "a", then the rows of "b"
FetchedFrames ==
    {a \o b : a \in SourceSeries("a", MaxFrameDays), b \in SourceSeries("b", MaxOtherDays)}

\* production_update.py:77-107 fetch_well_mapping: every PCE_WM row stores its
\* own name as fallback, and its Composite Name when it has one.  The
\* registries: both wells under their own names; "a" under its composite
\* name; "b" missing; "a" missing and "b" under its composite name; empty.
Registries ==
    {[composite |-> {}, fallback |-> {<<"a", "a">>, <<"b", "b">>}],
     [composite |-> {<<"a", "a - L - T - O">>}, fallback |-> {<<"a", "a">>, <<"b", "b">>}],
     [composite |-> {}, fallback |-> {<<"a", "a">>}],
     [composite |-> {<<"b", "b - L - T - O">>}, fallback |-> {<<"b", "b">>}],
     [composite |-> {}, fallback |-> {}]}

InMap(map, source) == \E e \in map : e[1] = source
Lookup(map, source) == (CHOOSE e \in map : e[1] = source)[2]

\* mutant: a source well without a registry entry keeps its source name
map_well_name_keep_source(cmap, fmap, source) ==
    IF InMap(cmap, source) THEN Some(Lookup(cmap, source))
    ELSE IF InMap(fmap, source) THEN Some(Lookup(fmap, source))
    ELSE Some(source)
\* production_update.py:130-146 map_well_name
map_well_name(cmap, fmap, source) ==
    IF InMap(cmap, source) THEN Some(Lookup(cmap, source))
    ELSE IF InMap(fmap, source) THEN Some(Lookup(fmap, source))
    ELSE NULL

\* production_update.py:148 "df['Well Name'] = df['Source_Well_Name'].apply(map_well_name)"
WithWellNames(frame, cmap, fmap) ==
    [n \in 1..Len(frame) |->
        [frame[n] EXCEPT !.Well_Name = map_well_name(cmap, fmap, frame[n].Source_Well_Name)]]

IsMapped(row) == NotNull(row.Well_Name)

\* production_update.py:118-169 apply_well_names: "df.dropna(subset=['Well Name'])"
ApplyWellNames(frame, cmap, fmap) == SelectSeq(WithWellNames(frame, cmap, fmap), IsMapped)

\* positions of a well's rows: "df['Well Name'] == well_name"
WellMask(frame, well_name) == {n \in 1..Len(frame) : frame[n].Well_Name = well_name}
\* mutant: the mask selects every row of the frame
WholeFrameIndices(frame, well_name) == 1..Len(frame)
\* "well_indices = df[well_mask].index"
WellIndices(frame, well_name) == WellMask(frame, well_name)

\* the rows at the positions S, in frame order
RowsAt(frame, S) ==
    [k \in 1..Cardinality(S) |->
        frame[CHOOSE n \in S : Cardinality({m \in S : m <= n}) = k]]
\* the place of row n among the positions S
RankIn(S, n) == Cardinality({m \in S : m <= n})

\* "df.loc[well_indices, col]"
ColumnAt(frame, S, col) == [k \in 1..Cardinality(S) |-> RowsAt(frame, S)[k][col]]

\* production_update.py:193-207: the well's first row with positive effective gas
FirstProduction(frame, S) ==
    LET producing == {n \in S : EffectiveGas(frame[n].Gas_WH, frame[n].Gathered_Gas) > 0}
    IN  IF producing = {} THEN NULL
        ELSE Some(frame[CHOOSE n \in producing : \A m \in producing : n <= m].Date)

\* production_update.py:212-227: kept from the first production date onward,
\* the wellhead gas replaced by gathered gas where it is low or missing
FrameKept(frame) ==
    {n \in 1..Len(frame) :
        LET first == FirstProduction(frame, WellMask(frame, frame[n].Well_Name))
        IN  NotNull(first) /\ frame[n].Date >= first[1]}

FirstIndex(frame, n) == CHOOSE m \in WellMask(frame, frame[n].Well_Name) :
                            \A k \in WellMask(frame, frame[n].Well_Name) : m <= k

\* "pd.concat(filtered_dfs, ignore_index=True)": the wells in order of first
\* appearance, each well's rows in frame order
ConcatBefore(frame, m, n) ==
    \/ FirstIndex(frame, m) < FirstIndex(frame, n)
    \/ FirstIndex(frame, m) = FirstIndex(frame, n) /\ m < n

\* production_update.py:172-251 filter_to_first_production over the frame
FilterFrame(frame) ==
    LET S == FrameKept(frame)
        at(k) == CHOOSE n \in S : Cardinality({m \in S : ConcatBefore(frame, m, n)}) = k - 1
    IN  [k \in 1..Cardinality(S) |->
            [frame[at(k)] EXCEPT !.Gas_WH = ReplacedGas(frame[at(k)].Gas_WH,
                                                        frame[at(k)].Gathered_Gas)]]

\* production_update.py:273-281: the Day Seq UPRT list of one well
RECURSIVE calc_seq_uprt(_, _)
calc_seq_uprt(values, c) ==
    IF values = <<>> THEN <<>>
    ELSE IF Positive(Head(values))
           THEN <<c>> \o calc_seq_uprt(Tail(values), c + 1)
           ELSE <<CalcLowValue(c)>> \o calc_seq_uprt(Tail(values), c)

\* production_update.py:253-289 calculate_sequences
CalculateSequences(frame) ==
    [n \in 1..Len(frame) |->
        LET S == WellIndices(frame, frame[n].Well_Name)
        IN  [frame[n] EXCEPT
               !.Days_Seq = Some(RangeFrom1(Cardinality(S))[RankIn(S, n)]),
               !.Day_Seq_UPRT =
                   Some(calc_seq_uprt(FillSeries(ColumnAt(frame, S, "Gas_WH")), 1)[RankIn(S, n)])]]

\* production_update.py:291-330 calculate_cumulatives
CalculateCumulatives(frame) ==
    [n \in 1..Len(frame) |->
        LET S == WellIndices(frame, frame[n].Well_Name)
        IN  [frame[n] EXCEPT
               !.Gas_WH_Cumulative =
                   Some(CumulativeColumn(ColumnAt(frame, S, "Gas_WH"))[RankIn(S, n)])]]

\* production_update.py:339 "dt.to_period('M')"
YearMonth(date) == (date - 1) \div DaysInMonth + 1

\* production_update.py:368-369 month_mask, month_indices
MonthIndices(frame, well_name, month) ==
    {n \in WellIndices(frame, well_name) : YearMonth(frame[n].Date) = month}

\* pandas Series.mean(): the sum over the count, as the pair <<sum, count>>
Mean(values) == <<cumsum(values)[Len(values)], Len(values)>>
\* mutant: nulls are left out of the average
MonthValuesSkipNull(frame, S) ==
    LET present == {n \in S : NotNull(frame[n].Gas_WH)}
    IN  [k \in 1..Cardinality(present) |-> RowsAt(frame, present)[k].Gas_WH[1]]
\* production_update.py:372 "df.loc[month_indices, source_col].fillna(0)"
MonthValues(frame, S) == FillSeries(ColumnAt(frame, S, "Gas_WH"))

\* production_update.py:332-387 calculate_monthly_averages
CalculateMonthlyAverages(frame) ==
    [n \in 1..Len(frame) |->
        LET S == MonthIndices(frame, frame[n].Well_Name, YearMonth(frame[n].Date))
        IN  [frame[n] EXCEPT
               !.Gas_WH_Avg = IF Len(MonthValues(frame, S)) > 0
                                THEN Some(Mean(MonthValues(frame, S)))
                                ELSE Some(<<0, 1>>)]]

FrameInit ==
    /\ \E r \in Registries :
          /\ composite_map = r.composite
          /\ fallback_map = r.fallback
    /\ df \in FetchedFrames
    /\ original_count = 0
    /\ frame_pc = "fetch_cda_data"
    /\ SeqParked
    /\ AllocParked
    /\ MergeParked
    /\ EngineParked
    /\ CumParked
    /\ SpineParked
    /\ WriterParked
    /\ AccessParked

\* main step 4; an empty frame ends the run
apply_well_names ==
    /\ frame_pc = "fetch_cda_data"
    /\ df # <<>>
    /\ original_count' = Len(df)
    /\ df' = ApplyWellNames(df, composite_map, fallback_map)
    /\ frame_pc' = "apply_well_names"
    /\ UNCHANGED <<composite_map, fallback_map>>
    /\ UNCHANGED notFrame

\* main step 5
main_filter_to_first_production ==
    /\ frame_pc = "apply_well_names"
    /\ df # <<>>
    /\ original_count' = Len(df)
    /\ df' = FilterFrame(df)
    /\ frame_pc' = "filter_to_first_production"
    /\ UNCHANGED <<composite_map, fallback_map>>
    /\ UNCHANGED notFrame

\* main step 6
calculate_sequences ==
    /\ frame_pc = "filter_to_first_production"
    /\ df # <<>>
    /\ df' = CalculateSequences(df)
    /\ UNCHANGED original_count
    /\ frame_pc' = "calculate_sequences"
    /\ UNCHANGED <<composite_map, fallback_map>>
    /\ UNCHANGED notFrame

\* main step 7
main_calculate_cumulatives ==
    /\ frame_pc = "calculate_sequences"
    /\ df' = CalculateCumulatives(df)
    /\ UNCHANGED original_count
    /\ frame_pc' = "calculate_cumulatives"
    /\ UNCHANGED <<composite_map, fallback_map>>
    /\ UNCHANGED notFrame

\* main step 8
calculate_monthly_averages ==
    /\ frame_pc = "calculate_cumulatives"
    /\ df' = CalculateMonthlyAverages(df)
    /\ UNCHANGED original_count
    /\ frame_pc' = "calculate_monthly_averages"
    /\ UNCHANGED <<composite_map, fallback_map>>
    /\ UNCHANGED notFrame

FrameNext ==
    \/ apply_well_names
    \/ main_filter_to_first_production
    \/ calculate_sequences
    \/ main_calculate_cumulatives
    \/ calculate_monthly_averages

\* ============================================================= Access table
\* access_loader.delete_cda_range over CDA_Table, the rows counted per ProdDate.
AccessDays == 3        \* ProdDates the Access table can hold rows for
FewRows == 1           \* a date with few rows
ManyRows == 19         \* a date with many rows
DeleteBatchSize == 20  \* rows per deletion batch (50000 in the source)
FastClearPercent == 95 \* access_loader.py:142 "rows_to_delete >= total_in_table * 0.95"

AccessDates == 1..AccessDays
RowCounts == {0, FewRows, ManyRows}

RECURSIVE CountRows(_, _)
\* "SELECT COUNT(*) FROM CDA_Table" over the dates S
CountRows(table, S) ==
    IF S = {} THEN 0
    ELSE LET d == CHOOSE x \in S : TRUE
         IN  table[d] + CountRows(table, S \ {d})

\* "WHERE ProdDate >= start_dt AND ProdDate < end_dt_exclusive"
InRange(a, b) == {d \in AccessDates : d >= a /\ d < b + 1}

\* access_loader.py:142 "fast_mode and rows_to_delete >= total_in_table * 0.95"
FastClear(rows_to_delete, total_in_table) ==
    rows_to_delete * 100 >= total_in_table * FastClearPercent

\* access_loader.py:68-104 clear_entire_cda_table: drop and recreate
ClearedTable == [d \in AccessDates |-> 0]

\* the rows of the dates D deleted
WithoutDates(table, D) == [d \in AccessDates |-> IF d \in D THEN 0 ELSE table[d]]

\* access_loader.py:156-163: the dates "SELECT TOP n ProdDate" can return, any
\* n rows of the range
TopDates(table, a, b) ==
    LET present == {d \in InRange(a, b) : table[d] > 0}
    IN  {D \in SUBSET present :
            /\ D # {}
            /\ Cardinality(D) <= DeleteBatchSize
            /\ \/ CountRows(table, D) >= DeleteBatchSize
               \/ D = present}

AccessInit ==
    /\ CDA_Table \in [AccessDates -> RowCounts]
    /\ range_start = 0
    /\ range_end = 0
    /\ access_pc = "idle"
    /\ SeqParked
    /\ AllocParked
    /\ MergeParked
    /\ EngineParked
    /\ CumParked
    /\ SpineParked
    /\ WriterParked
    /\ FrameParked

\* access_loader.py:107-147: the counts, the early return, the fast clear
delete_cda_range(a, b) ==
    /\ access_pc = "idle"
    /\ range_start' = a
    /\ range_end' = b
    /\ LET total_in_table == CountRows(CDA_Table, AccessDates)
           rows_to_delete == CountRows(CDA_Table, InRange(a, b))
       IN  IF rows_to_delete = 0
             THEN /\ access_pc' = "returned"
                  /\ UNCHANGED CDA_Table
             ELSE IF FastClear(rows_to_delete, total_in_table)
                    THEN /\ CDA_Table' = ClearedTable
                         /\ access_pc' = "returned"
                    ELSE /\ access_pc' = "batched"
                         /\ UNCHANGED CDA_Table
    /\ UNCHANGED notAccess

\* access_loader.py:154-173: one pass of "while True"
delete_batch ==
    /\ access_pc = "batched"
    /\ IF \A d \in InRange(range_start, range_end) : CDA_Table[d] = 0
         THEN /\ access_pc' = "returned"
              /\ UNCHANGED CDA_Table
         ELSE /\ \E D \in TopDates(CDA_Table, range_start, range_end) :
                    CDA_Table' = WithoutDates(CDA_Table, D)
              /\ UNCHANGED access_pc
    /\ UNCHANGED <<range_start, range_end>>
    /\ UNCHANGED notAccess

AccessNext ==
    \/ \E a \in AccessDates : \E b \in a..AccessDays : delete_cda_range(a, b)
    \/ delete_batch

\* =========================================================== stored tables
\* The history runs over the days 1..SpineDays; each processing month holds
\* one day, so a window of months from..to is the days from..to.

\* a feed row carries a reading above the low-flow threshold; a day without a
\* reading is a day without a row
EngineGasCells == {Some(2 * Unit + 1)}

\* the feeds the upstream store can hold for the well; the queries carry no
\* ORDER BY, so the rows come in any order
EngineFeeds == FeedsUpTo(MaxFeedRows, EngineGasCells)

Windows == {w \in (1..SpineDays) \X (1..SpineDays) : w[1] <= w[2]}

\* SQL "x BETWEEN a AND b"
Between(d, a, b) == a <= d /\ d <= b

\* mutant: the DELETE removes nothing
DeleteRangeKeepsAll(rows, a, b) == rows
\* DELETE FROM PCE_CDA WHERE ProdDate BETWEEN ? AND ?
DeleteRange(rows, a, b) == SelectSeq(rows, LAMBDA r : ~Between(r.ProdDate, a, b))
\* mutant: the window's production rows are left in the table
DeleteProductionRangeKeepsAll(rows, a, b) == rows
\* DELETE FROM PCE_Production WHERE [Date] BETWEEN ? AND ?
DeleteProductionRange(rows, a, b) == SelectSeq(rows, LAMBDA r : ~Between(r.Date, a, b))

\* the table's rows listed ORDER BY [Date], rows of one day in insertion order
RECURSIVE OrderProduction(_, _)
OrderProduction(rows, d) ==
    IF d > SpineDays THEN <<>>
    ELSE SelectSeq(rows, LAMBDA r : r.Date = d) \o OrderProduction(rows, d + 1)

\* the rows merged for the months from..to (prodview_update_gui.py:117-503, 795-1133)
MonthRows(feed, a, b) ==
    SelectSeq(MergePrepared(feed, <<>>), LAMBDA r : Between(r.ProdDate, a, b))

\* prodview_update_gui.py:515-559: INSERT INTO PCE_Production ... SELECT ... FROM
\* PCE_CDA with 0, 0 for the sequences and no cumulative column
ProductionFromCda(c) ==
    [Date |-> c.ProdDate, Gas_WH_Production |-> c.GasWH_Production,
     Days_Seq |-> 0, Gas_WH_Cumulative |-> NULL]

\* prodview_update_gui.py:586-632: Days Seq = position of the date among the
\* well's PCE_CDA rows, written by UPDATE ... WHERE [Date] = ? row after row
UpdateDaysSeq(prod, cda) ==
    [k \in 1..Len(prod) |->
        LET hits == {n \in 1..Len(cda) : cda[n].ProdDate = prod[k].Date}
        IN  IF hits = {} THEN prod[k]
            ELSE [prod[k] EXCEPT !.Days_Seq = CHOOSE n \in hits : \A m \in hits : m <= n]]

\* production_update.py:186-229 over rows that carry their date: the rows from
\* the first producing date onward, with the wellhead gas replaced
FirstProductionRows(rows) ==
    LET producing == {n \in 1..Len(rows) :
                        EffectiveGas(rows[n].GasWH_Production,
                                     rows[n].Gathered_Gas_Production) > 0}
    IN  IF producing = {} THEN <<>>
        ELSE LET first_idx == CHOOSE n \in producing : \A m \in producing : n <= m
                 kept == SelectSeq(rows, LAMBDA r : r.ProdDate >= rows[first_idx].ProdDate)
             IN  [k \in 1..Len(kept) |->
                    [kept[k] EXCEPT !.GasWH_Production =
                        ReplacedGas(kept[k].GasWH_Production,
                                    kept[k].Gathered_Gas_Production)]]

\* production_update.py:319-320 "values.fillna(0).cumsum()"
RECURSIVE CumSum(_, _)
CumSum(rows, k) ==
    IF k = 0 THEN 0 ELSE CumSum(rows, k - 1) + fillna0(rows[k].GasWH_Production)

\* filter_to_first_production, calculate_sequences and calculate_cumulatives
\* over the well's whole PCE_CDA history (production_update.py:171-330)
ProductionRows(cda) ==
    LET kept == FirstProductionRows(cda)
    IN  [k \in 1..Len(kept) |->
            [Date |-> kept[k].ProdDate, Gas_WH_Production |-> kept[k].GasWH_Production,
             Days_Seq |-> k, Gas_WH_Cumulative |-> Some(CumSum(kept, k))]]

\* 'months_processed' of the run's summary: run_quick_update adds 1 at the end
\* of each month it reloads (prodview_update_gui.py:1133); run_prodview_update
\* sets the counter to 0 (112) and returns it (641) with no statement adding
\* to it; the other runs return no summary
MonthsProcessed(kind, a, b) == IF kind = "run_quick_update" THEN b - a + 1 ELSE 0

\* the run just made, marked as a repeat when the run before it was the same
NoteRun(kind, a, b) ==
    [kind |-> kind, from |-> a, to |-> b, months_processed |-> MonthsProcessed(kind, a, b),
     times |-> IF last_run.kind = kind /\ last_run.from = a /\ last_run.to = b
                 THEN 2 ELSE 1]

EngineInit ==
    /\ snowflake_gaswh \in EngineFeeds
    /\ PCE_CDA = <<>>
    /\ PCE_Production = <<>>
    /\ last_run = NoRun
    /\ SeqParked
    /\ AllocParked
    /\ MergeParked
    /\ CumParked
    /\ SpineParked
    /\ WriterParked
    /\ FrameParked
    /\ AccessParked

\* cda.py __main__ (1544-1708): delete the whole range, merge, insert
full_rebuild ==
    /\ last_run.kind # "parked"
    /\ PCE_CDA' = OrderByDate(DeleteRange(PCE_CDA, 1, SpineDays)
                                \o ProcessWellBatch(snowflake_gaswh, <<>>), 1)
    /\ last_run' = NoteRun("full_rebuild", 1, SpineDays)
    /\ UNCHANGED <<snowflake_gaswh, PCE_Production>>
    /\ UNCHANGED notEngine

\* run_prodview_update over the months a..b (prodview_update_gui.py:30-664)
run_prodview_update(a, b) ==
    /\ last_run.kind # "parked"
    /\ LET month_rows == MonthRows(snowflake_gaswh, a, b)
           cda == OrderByDate(DeleteRange(PCE_CDA, a, b) \o month_rows, 1)
           prod == DeleteProductionRange(PCE_Production, a, b)
                     \o [k \in 1..Len(month_rows) |-> ProductionFromCda(month_rows[k])]
       IN  /\ PCE_CDA' = cda
           /\ PCE_Production' = OrderProduction(UpdateDaysSeq(prod, cda), 1)
    /\ last_run' = NoteRun("run_prodview_update", a, b)
    /\ UNCHANGED snowflake_gaswh
    /\ UNCHANGED notEngine

\* run_quick_update over the months a..b (prodview_update_gui.py:667-1346)
run_quick_update(a, b) ==
    /\ last_run.kind # "parked"
    /\ LET month_rows == MonthRows(snowflake_gaswh, a, b)
           cda == OrderByDate(DeleteRange(PCE_CDA, a, b) \o month_rows, 1)
           well_df_update == SelectSeq(ProductionRows(cda), LAMBDA r : Between(r.Date, a, b))
       IN  /\ PCE_CDA' = cda
           /\ PCE_Production' =
                 OrderProduction(DeleteProductionRange(PCE_Production, a, b)
                                   \o well_df_update, 1)
    /\ last_run' = NoteRun("run_quick_update", a, b)
    /\ UNCHANGED snowflake_gaswh
    /\ UNCHANGED notEngine

\* production_update.py main (525-577): clear PCE_Production, rebuild it from PCE_CDA
production_update_main ==
    /\ last_run.kind # "parked"
    /\ PCE_Production' = ProductionRows(PCE_CDA)
    /\ last_run' = NoteRun("production_update", 1, SpineDays)
    /\ UNCHANGED <<snowflake_gaswh, PCE_CDA>>
    /\ UNCHANGED notEngine

Next ==
    \/ full_rebuild
    \/ \E w \in Windows : run_prodview_update(w[1], w[2])
    \/ \E w \in Windows : run_quick_update(w[1], w[2])
    \/ production_update_main

vars == <<seqVars, allocVars, mergeVars, engineVars, cumVars, spineVars, writerVars, frameVars, accessVars>>

SpecSeq == SeqInit /\ [][SeqNext]_vars

\* a routine that has been entered runs on: the interpreter executes the loop
\* body of the running routine one pass after the other, so a pass that stays
\* possible is taken; nothing obliges a routine to be entered
SeqLoopStep == RecalcOuter \/ RecalcStreak \/ CalcSeqStep \/ ProdviewOuter \/ ProdviewStreak
SpecSeqLive == SeqInit /\ [][SeqNext]_vars /\ WF_vars(SeqLoopStep)

SpecAlloc == AllocInit /\ [][AllocNext]_vars

SpecMerge == MergeInit /\ [][MergeNext]_vars

Spec == EngineInit /\ [][Next]_vars

SpecCum == CumInit /\ [][CumNext]_vars

SpecSpine == SpineInit /\ [][SpineNext]_vars

SpecWriter == WriterInit /\ [][WriterNext]_vars

SpecFrame == FrameInit /\ [][FrameNext]_vars

SpecAccess == AccessInit /\ [][AccessNext]_vars

\* ------------------------------------------------ sequence routines: claims

\* the canonical state machine of the specification, written as a function of
\* the day's position: the counter after n days is 1 + the qualifying days so far
QualifyingDays(s, n) == Cardinality({k \in 1..n : s[k] >= Unit})
CanonCounter(s, n) == 1 + QualifyingDays(s, n)
CanonEmit(s, k) ==
    IF s[k] >= Unit THEN CanonCounter(s, k - 1) ELSE CanonCounter(s, k - 1) - 1

\* C3 (as claimed): on Scenario A every routine that derives the counters ends
\* with Days_Seq = 1,2,3,4,5,6 and Day_Seq_UPRT = 0,0,1,2,2,3.
C3_ScenarioA_EveryRoutine ==
    (pc = "done" /\ gas_wh = FillSeries(ScenarioA)) =>
        /\ seq_uprt = <<0, 0, 1, 2, 2, 3>>
        /\ (routine # "recalculate_day_seq_uprt" => days_seq = <<1, 2, 3, 4, 5, 6>>)

\* C4 (as claimed): in every routine, Day_Seq_UPRT is greater on a day than on
\* the day before only if that day's effective production is at least 1 unit.
C4_IncreaseOnlyOnQualifyingDay ==
    pc = "done" =>
        \A k \in 2..Len(seq_uprt) :
            seq_uprt[k] > seq_uprt[k - 1] => gas_wh[k] >= Unit

\* C5: recalculate_day_seq_uprt is the canonical state machine: after every
\* loop step the values emitted so far are the canonical ones (counter on a
\* qualifying day, counter - 1 on every day of a low run, hence 0 on leading
\* low days), the counter is 1 + the qualifying days consumed, and at the end
\* one value per day has been emitted.
C5_RecalcIsCanonical ==
    routine = "recalculate_day_seq_uprt" =>
        /\ Len(seq_uprt) = i - 1
        /\ \A k \in 1..Len(seq_uprt) : seq_uprt[k] = CanonEmit(gas_wh, k)
        /\ counter = CanonCounter(gas_wh, i - 1)
        /\ (pc = "done" => Len(seq_uprt) = Len(gas_wh))

\* C5 witness: a finished run with leading low days (emitting 0) and a low
\* run after a qualifying day (repeating the last good value).
C5_Witness ==
    /\ routine = "recalculate_day_seq_uprt"
    /\ pc = "done"
    /\ Len(seq_uprt) >= 3
    /\ seq_uprt[1] = 0
    /\ \E k \in 2..Len(seq_uprt) :
          /\ gas_wh[k] < Unit
          /\ gas_wh[k - 1] >= Unit
          /\ seq_uprt[k] = seq_uprt[k - 1]
          /\ seq_uprt[k] >= 1

\* C15: in every routine that writes the counters, Day_Seq_UPRT(i) is at most
\* Days_Seq(i) on every day i emitted so far; Days_Seq is the column the
\* routine writes, and for recalculate_day_seq_uprt, which leaves that column
\* alone, the day's position as calculate_sequences wrote it.
C15_UprtAtMostDaysSeq ==
    routine # "idle" =>
        \A k \in 1..Len(seq_uprt) :
            seq_uprt[k] <= (IF routine = "recalculate_day_seq_uprt"
                              THEN RangeFrom1(Len(gas_wh))[k]
                              ELSE days_seq[k])

\* C15 witness: run_prodview_update has finished a series on which the two
\* counters are equal on the second day and Day_Seq_UPRT is behind on the third
C15_Witness ==
    /\ pc = "done"
    /\ Len(seq_uprt) >= 3
    /\ seq_uprt[2] = 2
    /\ seq_uprt[3] < 3
    /\ routine = "run_prodview_update"

\* ----------------------------------------------- cumulative totals: claims

\* C13: calculate_cumulatives gives Cumulative(first day) = value or 0 if
\* null, Cumulative(day) = Cumulative(previous day) + (value or 0) on every
\* later day, a null never resetting the total, and a non-decreasing series
\* when every value is non-negative.
C13_CumulativeIsRunningTotal ==
    target_col # NULL =>
        LET cum == target_col[1]
        IN  /\ Len(cum) = Len(source_col)
            /\ \A k \in 1..Len(cum) :
                  cum[k] = (IF k = 1 THEN 0 ELSE cum[k - 1])
                             + (IF IsNull(source_col[k]) THEN 0 ELSE source_col[k][1])
            /\ (\A k \in 1..Len(cum) : IsNull(source_col[k]) \/ source_col[k][1] >= 0) =>
                  \A k \in 2..Len(cum) : cum[k] >= cum[k - 1]

\* C13 witness: a computed column whose source has a null first day, and a
\* null day between two positive days that carries the total over
C13_Witness ==
    /\ target_col # NULL
    /\ Len(source_col) >= 4
    /\ IsNull(source_col[1])
    /\ target_col[1][1] = 0
    /\ source_col[2] = Some(Unit + 1)
    /\ IsNull(source_col[3])
    /\ source_col[4] = Some(Unit + 1)
    /\ target_col[1][3] = Unit + 1
    /\ target_col[1][4] = 2 * (Unit + 1)

\* ---------------------------------------------- allocation calculator: claims

\* the factor rows a loader can have stored for the month held in cda_month
\* (the projection leaves the four summed columns alone)
StorableFactorRows ==
    {MonthlyFactorRow(cda_month, ext)} \cup {ExcelFactorRow(cda_month, x) : x \in ExcelRows}

\* the baseline rule as the specification words it: the gathered value when
\* the wellhead value is zero or at most 2 units, the wellhead value otherwise
StatedBaseline(wh, gathered) == IF wh[1] <= LowFlowThreshold THEN gathered ELSE wh

\* a projected month follows the stated baseline rule under the factor row f
ProjectedWithStatedBaseline(f) ==
    \A n \in 1..Len(cda_month) :
        LET row == cda_month[n]
        IN  /\ (NotNull(row.GasWH_Production) /\ NotNull(row.Gathered_Gas_Production)) =>
                  row.Gas_S2_Production =
                      SqlTimes(f.WH_to_S2_AllocFactor,
                               StatedBaseline(row.GasWH_Production,
                                              row.Gathered_Gas_Production))
            /\ (NotNull(row.Condensate_WH_Production)
                  /\ NotNull(row.Gathered_Condensate_Production)) =>
                  row.Condensate_Sales_Production =
                      SqlTimes(f.WH_to_Sales_Cond_AllocFactor,
                               StatedBaseline(row.Condensate_WH_Production,
                                              row.Gathered_Condensate_Production))

\* C1 (as claimed): each of the six stored allocation factors of a well-month
\* equals 1.0 whenever its denominator volume is zero or negative.
C1_FactorOneWhenDenominatorNotPositive ==
    NotNull(alloc_factors) =>
        LET f == alloc_factors[1]
        IN  /\ f.Prodview_WH_Gas <= 0 =>
                  /\ RatEq(f.WH_to_S2_AllocFactor, RatOne)
                  /\ RatEq(f.WH_to_Sales_AllocFactor, RatOne)
            /\ f.Prodview_WH_Cond <= 0 => RatEq(f.WH_to_Sales_Cond_AllocFactor, RatOne)
            /\ f.Gathered_Gas_Production <= 0 =>
                  /\ RatEq(f.Gathered_to_S2_Gas, RatOne)
                  /\ RatEq(f.Gathered_to_Sales, RatOne)
            /\ f.Gathered_Condensate_Production <= 0 =>
                  RatEq(f.Gathered_to_Sales_Condensate, RatOne)

\* C2 (as claimed): the daily projection and the first-production filter read
\* the gathered value in place of the wellhead value exactly when the wellhead
\* value is zero or at most 2 units, and both projections and the filter
\* follow that one rule.
C2_BaselineSubstitutesAtThreshold ==
    /\ projected_by = "combined_monthly_loader" =>
          ProjectedWithStatedBaseline(MonthlyFactorRow(cda_month, ext))
    /\ projected_by = "run_sales_ratios_update" =>
          \E f \in StorableFactorRows : ProjectedWithStatedBaseline(f)
    /\ NotNull(prod_gas) =>
          \A n \in KeptDays(cda_month) :
              LET row == cda_month[n]
              IN  (NotNull(row.GasWH_Production) /\ NotNull(row.Gathered_Gas_Production)) =>
                      prod_gas[1][n] = StatedBaseline(row.GasWH_Production,
                                                      row.Gathered_Gas_Production)

\* the Sales-gas column of a projected month under the factor row f, with the
\* baseline rule as the specification words it
SalesGasAsStated(f) ==
    \A n \in 1..Len(cda_month) :
        LET row == cda_month[n]
        IN  IF f.Sales_Gas > 0
              THEN (NotNull(row.GasWH_Production) /\ NotNull(row.Gathered_Gas_Production)) =>
                      row.Gas_Sales_Production =
                          SqlTimes(f.WH_to_Sales_AllocFactor,
                                   StatedBaseline(row.GasWH_Production,
                                                  row.Gathered_Gas_Production))
              ELSE /\ NotNull(row.Gas_Sales_Production)
                   /\ RatEq(row.Gas_Sales_Production[1], Rat(f.Sales_Gas, DaysInMonth))

\* C11 (as claimed): after the daily projection every day's Sales-gas is the
\* WH->Sales-gas factor times the day's baseline gas when the month's sales-gas
\* volume is positive, and the monthly volume divided by the number of days of
\* the month otherwise.
C11_SalesGasFactorOrFlatSpread ==
    /\ projected_by = "combined_monthly_loader" =>
          SalesGasAsStated(MonthlyFactorRow(cda_month, ext))
    /\ projected_by = "run_sales_ratios_update" =>
          \E f \in StorableFactorRows : SalesGasAsStated(f)

\* C12: after the daily projection the Sales-CGR of a day is 0 whenever the
\* day's Sales-gas is zero or negative.
C12_SalesCgrZeroWhenSalesGasNotPositive ==
    projected_by # "none" =>
        \A n \in 1..Len(cda_month) :
            LET row == cda_month[n]
            IN  (NotNull(row.Gas_Sales_Production)
                   /\ ~RatPositive(row.Gas_Sales_Production[1])) =>
                    /\ NotNull(row.Sales_CGR_Ratio)
                    /\ RatEq(row.Sales_CGR_Ratio[1], RatZero)

\* C12 witness: a projected month holds a day with negative Sales-gas and a
\* Sales-condensate value, and a day whose Sales-gas is the zero flat spread
C12_Witness ==
    /\ projected_by # "none"
    /\ \E n \in 1..Len(cda_month) :
          /\ NotNull(cda_month[n].Gas_Sales_Production)
          /\ cda_month[n].Gas_Sales_Production[1][1] < 0
          /\ NotNull(cda_month[n].Condensate_Sales_Production)
          /\ cda_month[n].Sales_CGR_Ratio = Some(RatZero)

\* ------------------------------------------------------- feed merge: claims

\* the value the specification lets a feed contribute to a day: that of the
\* last of the day's rows in date-sort order, null when the day has no row
StatedFeedValue(feed, d) ==
    IF RowsOn(feed, d) = <<>> THEN NULL ELSE RowsOn(feed, d)[Len(RowsOn(feed, d))].value

\* C6 (as claimed): in the full rebuild, run_daily, run_prodview_update and
\* run_quick_update each feed is reduced to one row per (key, date) before the
\* left join, so the join keeps one record per spine day, and of several rows
\* for one key and date only the last in date-sort order contributes its value.
C6_FeedsDedupedLastRowWins ==
    pipeline \in {"cda", "run_daily", "run_prodview_update", "run_quick_update"} =>
        /\ \A k, m \in 1..Len(joined) : joined[k].ProdDate = joined[m].ProdDate => k = m
        /\ \A k \in 1..Len(joined) :
              /\ joined[k].GasWH_Production = StatedFeedValue(gaswh_feed, joined[k].ProdDate)
              /\ joined[k].CGR_Ratio = StatedFeedValue(cgr_feed, joined[k].ProdDate)

\* C10: in every merge pipeline the derived wellhead condensate of a record is
\* null when its wellhead gas or its CGR ratio is null, and their exact
\* product otherwise; a null is never turned into zero.
C10_CondensateNullOrProduct ==
    \A k \in 1..Len(joined) :
        LET r == joined[k]
        IN  IF IsNull(r.GasWH_Production) \/ IsNull(r.CGR_Ratio)
              THEN r.Condensate_WH_Production = NULL
              ELSE r.Condensate_WH_Production =
                       Some(r.GasWH_Production[1] * r.CGR_Ratio[1])

\* C10 witness: a pipeline has run and left a record with gas but no CGR
\* (condensate null) next to a record with both (condensate their product).
C10_Witness ==
    /\ pipeline \in {"cda", "run_daily", "run_prodview_update", "run_quick_update", "main"}
    /\ \E k \in 1..Len(joined) :
          /\ NotNull(joined[k].GasWH_Production)
          /\ IsNull(joined[k].CGR_Ratio)
          /\ IsNull(joined[k].Condensate_WH_Production)
    /\ \E k \in 1..Len(joined) :
          /\ NotNull(joined[k].GasWH_Production)
          /\ NotNull(joined[k].CGR_Ratio)
          /\ joined[k].Condensate_WH_Production = Some(2 * (Unit + 1))

\* C16 (as claimed): a registry well for which no feed has any row comes out
\* of the merge with an empty timeline, no daily record at all.
C16_NoDataWellHasEmptyTimeline ==
    (pipeline \notin {"none", "parked"} /\ gaswh_feed = <<>> /\ cgr_feed = <<>>) =>
        joined = <<>>

\* the first-production date as the specification words it: the earliest date
\* of a feed row that carries a non-null value, the default start (day 1) when
\* there is none
StatedFirstDate(gas, cgr) ==
    LET matches == {gas[k].ProdDate : k \in {n \in 1..Len(gas) : NotNull(gas[n].value)}} \cup
                   {cgr[k].ProdDate : k \in {n \in 1..Len(cgr) : NotNull(cgr[n].value)}}
    IN  IF matches = {} THEN 1
        ELSE CHOOSE d \in matches : \A e \in matches : d <= e

\* C17 (as claimed): the date that anchors the well's spine is the minimum
\* date over the feed rows of the well that carry a non-null value, and the
\* fixed default start date when no feed has data for the well.
C17_FirstDateIsEarliestNonNullRow ==
    (pipeline = "cda" /\ joined # <<>>) =>
        joined[1].ProdDate = StatedFirstDate(gaswh_feed, cgr_feed)

\* C19: on every spine day for which a feed has no row of the well, the
\* field sourced from that feed is null in the merged daily record.
C19_UncoveredDayIsNull ==
    pipeline \notin {"none", "parked"} =>
        \A k \in 1..Len(joined) :
            /\ RowsOn(gaswh_feed, joined[k].ProdDate) = <<>> =>
                  IsNull(joined[k].GasWH_Production)
            /\ RowsOn(cgr_feed, joined[k].ProdDate) = <<>> =>
                  IsNull(joined[k].CGR_Ratio)

\* C19 witness: a merged window in which one day carries a gas reading of
\* zero from the feed and another day, which the gas feed does not cover,
\* carries a null
C19_Witness ==
    /\ pipeline = "run_prodview_update"
    /\ \E k \in 1..Len(joined) :
          /\ RowsOn(gaswh_feed, joined[k].ProdDate) # <<>>
          /\ joined[k].GasWH_Production = Some(0)
    /\ \E k \in 1..Len(joined) :
          /\ RowsOn(gaswh_feed, joined[k].ProdDate) = <<>>
          /\ RowsOn(cgr_feed, joined[k].ProdDate) # <<>>
          /\ IsNull(joined[k].GasWH_Production)
          /\ NotNull(joined[k].CGR_Ratio)


\* ----------------------------------------------------- registry spine: claims

\* C18: the spine built for a well holds every calendar day from the well's
\* first-production date through the cutoff, without a gap and with no day
\* outside that range, and the combined spine is ordered by well name
\* ascending and then by date ascending.
C18_SpineGaplessAndOrdered ==
    spine # NULL =>
        LET rows == spine[1]
        IN  /\ \A w \in {mapping[n] : n \in 1..Len(mapping)} :
                  {rows[k].ProdDate : k \in {n \in 1..Len(rows) : rows[n].Well_Name = w}}
                      = first_dates[w]..SpineDays
            /\ \A k \in 1..Len(rows) : \E n \in 1..Len(mapping) : mapping[n] = rows[k].Well_Name
            /\ \A k \in 1..(Len(rows) - 1) :
                  \/ rows[k].Well_Name < rows[k + 1].Well_Name
                  \/ /\ rows[k].Well_Name = rows[k + 1].Well_Name
                     /\ rows[k].ProdDate <= rows[k + 1].ProdDate

\* C18 witness: a spine built from a registry that lists a later-named well
\* first, the two wells starting on different days
C18_Witness ==
    /\ spine # NULL
    /\ Len(mapping) >= 2
    /\ mapping[1] > mapping[2]
    /\ first_dates[mapping[1]] # first_dates[mapping[2]]
    /\ Len(spine[1]) >= 3
    /\ spine[1][1].Well_Name = mapping[2]
    /\ spine[1][1].ProdDate = first_dates[mapping[2]]


\* ----------------------------------------------------- stored tables: claims

\* the running sum of the well's gas from its first producing day through day
\* d, over the history PCE_CDA holds
RunningSumThrough(d) ==
    LET history == SelectSeq(FirstProductionRows(PCE_CDA), LAMBDA r : r.ProdDate <= d)
    IN  CumSum(history, Len(history))

C8_OneRecordPerWellDate ==
    /\ \A k, m \in 1..Len(PCE_CDA) : PCE_CDA[k].ProdDate = PCE_CDA[m].ProdDate => k = m
    /\ \A k, m \in 1..Len(PCE_Production) :
          PCE_Production[k].Date = PCE_Production[m].Date => k = m

\* C9 (as claimed): after run_prodview_update or run_quick_update every stored
\* PCE_Production record of the well, inside the window and after it, carries
\* a gas cumulative equal to the running sum of the gas from the well's first
\* day through that record's date.
C9_CumulativeIsRunningSum ==
    last_run.kind \in {"run_prodview_update", "run_quick_update"} =>
        \A k \in 1..Len(PCE_Production) :
            PCE_Production[k].Gas_WH_Cumulative =
                Some(RunningSumThrough(PCE_Production[k].Date))

C20_FailedBatchRetriedRowByRow ==
    write_pc \in {"done", "raised"} =>
        /\ write_pc = "done"
        /\ \A k \in 1..Len(rows_to_insert) :
              IF rows_to_insert[k].rejected
                THEN /\ k \in bad_rows
                     /\ \A n \in 1..Len(table_rows) : table_rows[n].pos # k
                ELSE /\ k \notin bad_rows
                     /\ \E n \in 1..Len(table_rows) : table_rows[n].pos = k

\* ---------------------------------------------------- production frame: claims
\* the well-month's rows of the stored frame
WellMonth(n) == {m \in 1..Len(df) : /\ df[m].Well_Name = df[n].Well_Name
                                    /\ YearMonth(df[m].Date) = YearMonth(df[n].Date)}

RECURSIVE SumNullAsZero(_)
SumNullAsZero(S) ==
    IF S = {} THEN 0
    ELSE LET n == CHOOSE m \in S : TRUE
         IN  fillna0(df[n].Gas_WH) + SumNullAsZero(S \ {n})

\* C21: after calculate_monthly_averages every day of a well-month carries one
\* and the same monthly average, and that average is the arithmetic mean of
\* the well-month's daily records with a null counted as zero.
C21_MonthlyAverageIsMeanNullAsZero ==
    frame_pc = "calculate_monthly_averages" =>
        \A n \in 1..Len(df) :
            /\ NotNull(df[n].Gas_WH_Avg)
            /\ RatEq(df[n].Gas_WH_Avg[1],
                     <<SumNullAsZero(WellMonth(n)), Cardinality(WellMonth(n))>>)
            /\ \A m \in WellMonth(n) : df[m].Gas_WH_Avg = df[n].Gas_WH_Avg

\* a well-month with a null day and a producing day has been averaged
C21_Witness ==
    /\ frame_pc = "calculate_monthly_averages"
    /\ \E n \in 1..Len(df) : \E m \in WellMonth(n) :
          /\ IsNull(df[n].Gas_WH)
          /\ NotNull(df[m].Gas_WH) /\ df[m].Gas_WH[1] > 0

Registered(source) == InMap(composite_map, source) \/ InMap(fallback_map, source)
Measurement(row) == <<row.Source_Well_Name, row.Date, row.Gas_WH, row.Gathered_Gas>>
IsRegistered(row) == Registered(row.Source_Well_Name)

\* C22: apply_well_names drops every row whose source well has no registry
\* entry, keeps every other row in order, and returns normally.
C22_UnmappedRowsDropped ==
    [][apply_well_names =>
          /\ frame_pc' = "apply_well_names"
          /\ \A n \in 1..Len(df') : Registered(df'[n].Source_Well_Name)
          /\ [n \in 1..Len(df') |-> Measurement(df'[n])]
               = [n \in 1..Len(SelectSeq(df, IsRegistered)) |->
                     Measurement(SelectSeq(df, IsRegistered)[n])]]_vars

\* apply_well_names has dropped some rows and kept others
C22_Witness ==
    /\ frame_pc = "apply_well_names"
    /\ 0 < Len(df)
    /\ Len(df) < original_count

WellsOf(frame) == {frame[n].Well_Name : n \in 1..Len(frame)}
Alone(frame, well_name) == RowsAt(frame, WellMask(frame, well_name))

\* C23: the sequence counters, cumulative sums and monthly averages of a well
\* are those the same steps produce from the well's rows alone, whatever
\* rows of other wells the frame holds.
C23_WellComputedFromOwnRows ==
    \A w \in WellsOf(df) :
        /\ frame_pc = "calculate_sequences" =>
              Alone(df, w) = CalculateSequences(Alone(df, w))
        /\ frame_pc = "calculate_cumulatives" =>
              Alone(df, w) = CalculateCumulatives(CalculateSequences(Alone(df, w)))
        /\ frame_pc = "calculate_monthly_averages" =>
              Alone(df, w) = CalculateMonthlyAverages(
                                 CalculateCumulatives(CalculateSequences(Alone(df, w))))

\* two wells with production have been carried through all three steps
C23_Witness ==
    /\ frame_pc = "calculate_monthly_averages"
    /\ \E v \in WellsOf(df) : \E w \in WellsOf(df) :
          /\ v # w
          /\ Cardinality(WellMask(df, v)) > 1
          /\ \E n \in WellMask(df, w) : fillna0(df[n].Gas_WH) > 0

\* ------------------------------------- sequence routines: the two definitions
\* C24: calculate_sequences and recalculate_day_seq_uprt are not equivalent:
\* on every series whose first day is below one unit the first gives that
\* day the value 1 and the second gives it the value 0.
C24_RoutinesDisagreeOnLeadingLowDay ==
    (pc = "done" /\ Len(gas_wh) > 0 /\ gas_wh[1] < Unit) =>
        /\ routine = "calculate_sequences" => seq_uprt[1] = 1
        /\ routine = "recalculate_day_seq_uprt" => seq_uprt[1] = 0

\* calculate_sequences has run over a series that starts with a low day
C24_Witness ==
    /\ routine = "calculate_sequences"
    /\ pc = "done"
    /\ Len(gas_wh) > 1
    /\ gas_wh[1] < Unit
    /\ seq_uprt[1] # RecalcLastGood(1)

\* ----------------------------------------------------- Access table: claims
\* C25: delete_cda_range(start, end) removes exactly the rows whose ProdDate
\* lies in [start, end]: once it has returned no row of the range remains, and
\* no step of it removes a row whose ProdDate is outside the range.
C25_DeleteRemovesExactlyTheRange ==
    /\ [](access_pc = "returned" =>
             \A d \in AccessDates :
                 (range_start <= d /\ d <= range_end) => CDA_Table[d] = 0)
    /\ [][access_pc # "parked" =>
             \A d \in AccessDates :
                 (d < range_start' \/ d > range_end') => CDA_Table'[d] = CDA_Table[d]]_vars

\* ------------------------------------------- batched writer: the failed run
\* C26: when run_prodview_update fails after it has cleared the month, the
\* rows the table held for the month before the run are still present.
C26_FailedRunKeepsEarlierRows ==
    (writer = "run_prodview_update" /\ write_pc = "raised") =>
        Len(SelectSeq(table_rows, LAMBDA r : r.pos = 0)) >= deleted_cda

\* ------------------------------------------- stored tables: the quick update
\* the date of the well's first production in the stored history
FirstProductionDates ==
    {PCE_CDA[n].ProdDate : n \in {m \in 1..Len(PCE_CDA) :
        EffectiveGas(PCE_CDA[m].GasWH_Production, PCE_CDA[m].Gathered_Gas_Production) > 0}}

OnOrAfterFirstProduction(d) == \E f \in FirstProductionDates : f <= d

RatPlus(a, b) == <<a[1] * b[2] + b[1] * a[2], a[2] * b[2]>>

\* SQL SUM over the projected S2-gas of the first n days, a missing value skipped
RECURSIVE SumProjectedS2(_, _)
SumProjectedS2(rows, n) ==
    IF n = 0 THEN RatZero
    ELSE IF IsNull(rows[n].Gas_S2_Production) THEN SumProjectedS2(rows, n - 1)
    ELSE RatPlus(SumProjectedS2(rows, n - 1), rows[n].Gas_S2_Production[1])

\* the factor row the loaders compute from the month in cda_month is stored
\* and its monthly wellhead gas total is positive
LoaderFactorsWithPositiveWellhead ==
    /\ NotNull(alloc_factors)
    /\ alloc_factors[1] = MonthlyFactorRow(cda_month, ext)
    /\ alloc_factors[1].Prodview_WH_Gas > 0

ConservesMonthlyS2(rows) == RatEq(SumProjectedS2(rows, Len(rows)), <<ext.S2_Gas, 1>>)

\* C28 (as claimed): for a well-month whose monthly wellhead gas total is
\* positive, the projected daily S2-gas of the month's days sums to the
\* monthly S2 gas volume the WH->S2 factor was computed from, after
\* combined_monthly_loader and after every run_sales_ratios_update.
C28_ProjectionConservesMonthlyS2 ==
    /\ []((projected_by = "combined_monthly_loader" /\ LoaderFactorsWithPositiveWellhead)
            => ConservesMonthlyS2(cda_month))
    /\ [][(run_sales_ratios_update /\ LoaderFactorsWithPositiveWellhead)
            => ConservesMonthlyS2(cda_month')]_vars

\* ---------------------------------------------- stored tables: the run summary
\* C29 (as claimed): the summary of run_prodview_update and of
\* run_quick_update reports months_processed equal to the number of months
\* the run cleared and reloaded.
C29_SummaryCountsMonthsReloaded ==
    last_run.kind \in {"run_prodview_update", "run_quick_update"} =>
        last_run.months_processed = last_run.to - last_run.from + 1

\* ------------------------------------------- Day Seq UPRT loops: termination
\* C30: for every finite gas series, each Day Seq UPRT loop that is entered
\* terminates, and when it has terminated it has emitted exactly one value
\* per input day: the output list is as long as the well's list of days.
C30_LoopsTerminateWithOneValuePerDay ==
    /\ [](pc = "done" => Len(seq_uprt) = Len(gas_wh))
    /\ [](pc \in {"loop", "streak"} => Len(seq_uprt) <= Len(gas_wh))
    /\ (pc \in {"loop", "streak"}) ~> (pc = "done")

\* a routine with an inner loop has finished a series of MaxDays days that
\* holds a low streak
C30_Witness ==
    /\ pc = "done"
    /\ routine \in {"recalculate_day_seq_uprt", "run_prodview_update"}
    /\ Len(gas_wh) = MaxDays
    /\ Len(seq_uprt) = MaxDays
    /\ \E k \in 1..(MaxDays - 1) : BelowOneUnit(gas_wh[k]) /\ BelowOneUnit(gas_wh[k + 1])

====
